---- MODULE Spec2Model ----
(***************************************************************************)
(* The AI furniture photoshoot application: the React state of App, the    *)
(* asynchronous handlers that mutate it, and the orchestrators of          *)
(* services/geminiService that sequence the calls to the generation        *)
(* service.  Every `await` of a service call splits a handler in two       *)
(* steps: the step that issues the request and the step that runs when the *)
(* response arrives.  Local file encoding (fileToBase64) is folded into    *)
(* the step that issues the request.                                       *)
(***************************************************************************)
EXTENDS Integers, Sequences, FiniteSets, TLC

\* ------------------------------------------------------------- bounds
MaxVariations == 2      \* variations a parsed specification sheet may list
MaxStarts == 3          \* operations (generate, edit, regenerate) the user starts in one run
MaxShoots == 1          \* photoshoots the user starts in one run of the photoshoot App
MaxCards == 2           \* cards of a variation (of a photoshoot) the user works on
MaxImages == 2          \* images handed to an export
MaxTitleLen == 1        \* characters of an exported image's title
MaxNameLen == 2         \* characters of the product name of an export
MaxRows == 2            \* rows of a table written as CSV
MaxFields == 2          \* fields of a row of such a table
MaxFieldLen == 1        \* characters of a field of such a table
MaxLiveStarts == 2      \* operations the user starts in a run in which every call returns

\* ------------------------------------------------------------- values
Null == "<null>"                    \* null of a string-typed state
NoContent == [null |-> TRUE]        \* generatedContent === null
Idle == [pc |-> "idle"]             \* no generation in flight
NoDownload == [pc |-> "none"]       \* no export under way
\* The modules are loaded, with the API key in the environment.
Loaded == [API_KEY |-> TRUE, status |-> "loaded"]
Other == [act |-> "other"]          \* the last step was none a claim is about

\* The builds of the repository: App.tsx with the user-instruction service
\* or with the spec-sheet-only service; the photoshoot App with the
\* style-driven service or with the single-image service.
VariationBuilds == {"instructions", "specsheet"}
ShootBuilds == {"styled", "single"}
Builds == VariationBuilds \cup ShootBuilds

\* What the user can pick or type.
Uploads == {<<"spec.png">>}
InstructionTexts == {"warm tones"}
CardPrompts == {"", " ", "add a rug"}
CreativeStyles == {"modern_suburban", "scandinavian", "moody_luxurious",
                   "warm_rustic", "industrial_loft"}

\* What the service can answer.  "ottoman" stands for an answer outside the
\* list the classification prompt asks for.
Categories == {"sofa", "table", "chair", "bed", "storage", "office", "ottoman"}
Failures == {[isError |-> TRUE, message |-> "quota exceeded"],
             [isError |-> FALSE, message |-> ""]}
NameLists == {<<"Luna Sofa", "Aria Couch">>}

VARIABLES build, sourceImages, userInstructions, creativeStyle,
          generatedContent, isGenerating, isUpdatingDetails,
          generatingMessage, editingImageId, error,
          gen, ops, trace, nGen, nOps, last, download, runtime

vars == <<build, sourceImages, userInstructions, creativeStyle,
          generatedContent, isGenerating, isUpdatingDetails,
          generatingMessage, editingImageId, error,
          gen, ops, trace, nGen, nOps, last, download, runtime>>

\* ------------------------------------------------------------- helpers
RECURSIVE Join(_, _)
Join(seq, sep) ==
  IF seq = <<>> THEN ""
  ELSE IF Len(seq) = 1 THEN seq[1]
  ELSE seq[1] \o sep \o Join(Tail(seq), sep)

\* String.prototype.trim() on the texts a card can hold.
Trim(s) == IF s \in {"", " "} THEN "" ELSE s

\* A variation's attributes, in the key order of the parsed JSON.
Attributes(k) == << <<"Size", "S" \o ToString(k)>>, <<"Dimensions", "240*100*78CM">>,
                    <<"Color", "C" \o ToString(k)>>, <<"Material", "Velvet">> >>
Attr(variation, key) ==
  LET hits == {n \in 1..Len(variation) : variation[n][1] = key}
  IN IF hits = {} THEN "undefined" ELSE variation[CHOOSE n \in hits : TRUE][2]
ObjectValues(variation) == [n \in 1..Len(variation) |-> variation[n][2]]

\* crypto.randomUUID(): a fresh identifier, here named by the place that
\* draws it (generation, variation, image; image 0 is the variation's own id).
randomUUID(g, i, j) == "id-" \o ToString(g) \o "-" \o ToString(i) \o "-" \o ToString(j)

\* The image the service returns: determined by what it was sent.
Image(sources, text) == [sources |-> sources, text |-> text]
FromFiles(files) == [files |-> files]
FromImages(images) == [images |-> images]

\* catch (err): err instanceof Error ? err.message : fallback
errorMessage(err, fallback) == IF err.isError THEN err.message ELSE fallback

Msg(text) == [e |-> "msg", text |-> text]
Req(fn, text) == [e |-> "req", fn |-> fn, text |-> text]
Ret(fn, ok) == [e |-> "ret", fn |-> fn, ok |-> ok]

\* ------------------------------------------------------------- prompts
\* The prompt texts are abbreviated; what they interpolate is kept.
instructionsText(instr) ==
  IF instr # "" THEN "User specific instructions: \"" \o instr \o "\"." ELSE ""

variationDetails(variation) ==
  "Size is " \o Attr(variation, "Size") \o ", color is " \o Attr(variation, "Color") \o "."

Shot(announce, title, description, prompt, category) ==
  [announce |-> announce, title |-> title, description |-> description,
   prompt |-> prompt, category |-> category]

\* instructionShots without the rule for a single variation.
instructionShots_twoShots(total, i, name, variation, instr) ==
  LET tail == " " \o instructionsText(instr) \o " [preserve] [clean]"
  IN << Shot("", "Studio Shot (Front View)",
             "High quality front view on white background.",
             "Front View product photo of the " \o name \o ". "
               \o variationDetails(variation) \o tail, "studio"),
        Shot("Generating lifestyle scene for variation " \o ToString(i) \o "/"
               \o ToString(total) \o "...", "Minimalist Lifestyle Scene",
             "Product shown in a stylish, modern home.",
             "Trendy, aspirational lifestyle image of the " \o name \o ". "
               \o variationDetails(variation) \o tail, "lifestyle") >>

\* The image tasks of one loop iteration of generateVariationsFromSpecSheet,
\* in program order.  `announce` is the updateMessage issued right before the
\* task's call ("" for the first task, announced by the loop head).
instructionShots(total, i, name, variation, instr) ==
  LET tail == " " \o instructionsText(instr) \o " [preserve] [clean]"
      front == Shot("", "Studio Shot (Front View)",
                    "High quality front view on white background.",
                    "Front View product photo of the " \o name \o ". "
                      \o variationDetails(variation) \o tail, "studio")
      angle == Shot("Generating 3/4 angle view...", "Studio Shot (3/4 View)",
                    "High quality 3/4 angle view on white background.",
                    "3/4 Angle View product photo of the " \o name \o ". "
                      \o variationDetails(variation) \o tail, "studio")
      life1 == Shot("Generating lifestyle scene 1/3...", "Lifestyle: Living Space",
                    "Natural minimalist living room context.",
                    "High-end lifestyle image of the " \o name \o "." \o tail, "lifestyle")
      life2 == Shot("Generating lifestyle scene 2/3...", "Lifestyle: Atmospheric/Cozy",
                    "Warm lighting with focus on texture and atmosphere.",
                    "Cozy, atmospheric lifestyle image of the " \o name \o "." \o tail,
                    "lifestyle")
      life3 == Shot("Generating lifestyle scene 3/3...", "Lifestyle: Architectural Loft",
                    "High-end editorial style in a loft.",
                    "High-end editorial style image of the " \o name \o "." \o tail,
                    "lifestyle")
      life  == Shot("Generating lifestyle scene for variation " \o ToString(i) \o "/"
                      \o ToString(total) \o "...", "Minimalist Lifestyle Scene",
                    "Product shown in a stylish, modern home.",
                    "Trendy, aspirational lifestyle image of the " \o name \o ". "
                      \o variationDetails(variation) \o tail, "lifestyle")
  IN <<front>>
       \o (IF total = 1 THEN <<angle>> ELSE <<>>)
       \o (IF total = 1 THEN <<life1, life2, life3>> ELSE <<life>>)

specsheetShots(total, i, name, variation) ==
  << Shot("", "Studio Shot (Front View)", "Clean shot on a white background.",
          "Product photo (spec sheet) of the " \o name \o ". "
            \o variationDetails(variation) \o " [upscale]", "studio"),
     Shot("Generating lifestyle scene for variation " \o ToString(i) \o "/"
            \o ToString(total) \o "...", "Minimalist Lifestyle Scene",
          "Product shown in a stylish, modern home.",
          "Lifestyle image (spec sheet) of the " \o name \o ". "
            \o variationDetails(variation) \o " [upscale]", "lifestyle") >>

Shots(b, total, i, name, variation, instr) ==
  IF b = "specsheet" THEN specsheetShots(total, i, name, variation)
  ELSE instructionShots(total, i, name, variation, instr)

\* updateMessage at the head of the loop.
variationMessage(i, total, variation) ==
  "Generating images for variation " \o ToString(i) \o "/" \o ToString(total)
    \o ": " \o Join(ObjectValues(variation), ", ")

analyzingMessage(b) ==
  IF b = "specsheet" THEN "Analyzing specification sheet..."
  ELSE "Analyzing images for product details..."

\* parseSpecSheet's answer for a sheet of n variations.
ParsedSpecSheet(n) ==
  [productName |-> "Fabric sofa", modelNo |-> "LP-A813",
   variations |-> [k \in 1..n |-> [attributes |-> Attributes(k)]]]

\* generateBaseProductDetails: the fields added to the service's answer.
baseProductDetails(names, baseProductName) ==
  LET primaryName == IF names # <<>> THEN names[1] ELSE baseProductName
  IN [names |-> names, suggestedPrice |-> "$1,299.99",
      description |-> "A sofa.", tags |-> <<"sofa">>,
      seoTitle |-> "Sofa", seoDescription |-> "A sofa for your home.",
      measurements |-> "See variations for specific dimensions.",
      shipping |-> "Ships within 3 to 11 weeks.",
      careInstructions |-> "General care: Wipe clean with a soft, dry cloth. Avoid harsh chemicals.",
      socialMediaCaption |-> "Elevate your space with the new " \o primaryName \o "."]

GeneratedImage(id, title, description, base64, prompt, ar, category) ==
  [id |-> id, title |-> title, description |-> description, base64 |-> base64,
   sourcePrompt |-> prompt, sourceAspectRatio |-> ar, category |-> category]

\* ------------------------------------------------------------- the view
\* App, once its modules are loaded, renders ImageUploader while generatedContent
\* is null and ResultsDisplay (with the Start New button) otherwise.
UploaderShown == runtime.status = "loaded" /\ generatedContent = NoContent
ResultsShown == runtime.status = "loaded" /\ generatedContent # NoContent

\* The Generate button disabled on an empty file list only.
GenerateEnabled_ignoresGenerating == UploaderShown /\ ~(Len(sourceImages) = 0)

\* ImageUploader's Generate button: disabled={files.length === 0 || isGenerating}
GenerateEnabled == UploaderShown /\ ~(Len(sourceImages) = 0 \/ isGenerating)

\* ImageCard's controls: disabled={isEditing}, isEditing = (editingImageId === image.id)
CardEnabled(imageId) == ResultsShown /\ ~(editingImageId = imageId)

\* ------------------------------------------------------------- Init
\* useState's initial values, for the App of build b.
AppState(b) ==
  /\ build = b
  /\ sourceImages = <<>>
  /\ userInstructions = ""
  /\ creativeStyle = "modern_suburban"
  /\ generatedContent = NoContent
  /\ isGenerating = FALSE
  /\ isUpdatingDetails = FALSE
  /\ generatingMessage = ""
  /\ editingImageId = Null
  /\ error = Null
  /\ gen = Idle
  /\ ops = {}
  /\ trace = <<>>
  /\ nGen = 0
  /\ nOps = 0
  /\ last = [act |-> "init"]

Mounted(b) == AppState(b) /\ download = NoDownload /\ runtime = Loaded

Init == \E b \in VariationBuilds : Mounted(b)

\* ------------------------------------------------------------- uploader
handleFileChange ==
  /\ UploaderShown
  /\ \E files \in Uploads : sourceImages' = files
  /\ last' = Other
  /\ UNCHANGED <<build, userInstructions, creativeStyle, generatedContent, isGenerating,
                 isUpdatingDetails, generatingMessage, editingImageId, error, gen, ops,
                 trace, nGen, nOps, download, runtime>>

removeFile ==
  /\ UploaderShown
  /\ \E index \in 1..Len(sourceImages) :
       sourceImages' = [n \in 1..(Len(sourceImages) - 1) |->
                          IF n < index THEN sourceImages[n] ELSE sourceImages[n + 1]]
  /\ last' = Other
  /\ UNCHANGED <<build, userInstructions, creativeStyle, generatedContent, isGenerating,
                 isUpdatingDetails, generatingMessage, editingImageId, error, gen, ops,
                 trace, nGen, nOps, download, runtime>>

setUserInstructions ==
  /\ build \in VariationBuilds
  /\ UploaderShown
  /\ \E text \in InstructionTexts : userInstructions' = text
  /\ last' = Other
  /\ UNCHANGED <<build, sourceImages, creativeStyle, generatedContent, isGenerating,
                 isUpdatingDetails, generatingMessage, editingImageId, error, gen, ops,
                 trace, nGen, nOps, download, runtime>>

\* The close button of the error banner.
dismissError ==
  /\ error # Null
  /\ error' = Null
  /\ last' = Other
  /\ UNCHANGED <<build, sourceImages, userInstructions, creativeStyle, generatedContent,
                 isGenerating, isUpdatingDetails, generatingMessage, editingImageId, gen,
                 ops, trace, nGen, nOps, download, runtime>>

\* ------------------------------------------------------------- handleGenerate
\* What a generation leaves alone while it runs.
genFrame == <<build, sourceImages, userInstructions, creativeStyle, isUpdatingDetails,
              editingImageId, ops, nOps, download, runtime>>

\* generationRejects without the finally block.
generationRejects_noFinally(fn, err) ==
  /\ error' = "Generation failed: "
                \o errorMessage(err, "An unknown error occurred during generation.")
  /\ gen' = Idle
  /\ trace' = Append(trace, Ret(fn, FALSE))
  /\ last' = [act |-> "handleGenerate.catch", err |-> err]
  /\ UNCHANGED <<generatedContent, nGen, isGenerating, generatingMessage>>
  /\ UNCHANGED genFrame

\* handleGenerate's catch and finally, entered when the call `fn` rejects with err.
generationRejects(fn, err) ==
  /\ error' = "Generation failed: "
                \o errorMessage(err, "An unknown error occurred during generation.")
  /\ isGenerating' = FALSE
  /\ generatingMessage' = ""
  /\ gen' = Idle
  /\ trace' = Append(trace, Ret(fn, FALSE))
  /\ last' = [act |-> "handleGenerate.catch", err |-> err]
  /\ UNCHANGED <<generatedContent, nGen>>
  /\ UNCHANGED genFrame

\* The orchestrator returns `content`: setGeneratedContent(content), then finally.
generationResolves(fn, content) ==
  /\ generatedContent' = content
  /\ isGenerating' = FALSE
  /\ generatingMessage' = ""
  /\ gen' = Idle
  /\ trace' = trace \o <<Ret(fn, TRUE), Msg("Finalizing your photoshoot...")>>
  /\ last' = [act |-> "handleGenerate.done"]
  /\ UNCHANGED <<error, nGen>>
  /\ UNCHANGED genFrame

\* generationGoesOn without the updateMessage call.
generationGoesOn_silent(ret, g, message, call, text) ==
  /\ gen' = [g EXCEPT !.pc = call]
  /\ trace' = trace \o <<ret, Req(call, text)>>
  /\ last' = Other
  /\ UNCHANGED <<generatedContent, isGenerating, generatingMessage, error, nGen>>
  /\ UNCHANGED genFrame

\* The orchestrator goes on after the return `ret` of a call: updateMessage(message),
\* then the next call.
generationGoesOn(ret, g, message, call, text) ==
  /\ gen' = [g EXCEPT !.pc = call]
  /\ generatingMessage' = message
  /\ trace' = trace \o <<ret, Msg(message), Req(call, text)>>
  /\ last' = Other
  /\ UNCHANGED <<generatedContent, isGenerating, error, nGen>>
  /\ UNCHANGED genFrame

\* The call `fn` returned a value.
generationAwaits(fn, g, message, call, text) ==
  generationGoesOn(Ret(fn, TRUE), g, message, call, text)

\* generateVariationsFromSpecSheet up to its first await: it throws on an empty list
\* of source files, else it announces the analysis and calls parseSpecSheet.
generateVariationsFromSpecSheet(sourceFiles) ==
  IF Len(sourceFiles) = 0
  THEN [threw |-> TRUE,
        err |-> [isError |-> TRUE, message |-> "At least one source image must be provided."],
        events |-> <<>>]
  ELSE [threw |-> FALSE, err |-> [isError |-> FALSE, message |-> ""],
        events |-> <<Msg(analyzingMessage(build)), Req("parseSpecSheet", "")>>]

\* What the start of a generation with the files of the uploader does to the state:
\* the three setters, then the orchestrator up to its first await (or, had it thrown,
\* catch and finally).
startGeneration ==
  LET start == generateVariationsFromSpecSheet(sourceImages)
  IN /\ generatedContent' = NoContent
     /\ nGen' = nGen + 1
     /\ IF start.threw
        THEN /\ isGenerating' = FALSE
             /\ error' = "Generation failed: "
                           \o errorMessage(start.err,
                                           "An unknown error occurred during generation.")
             /\ generatingMessage' = ""
             /\ UNCHANGED <<gen, trace>>
        ELSE /\ isGenerating' = TRUE
             /\ error' = Null
             /\ generatingMessage' = start.events[1].text
             /\ trace' = start.events
             /\ gen' = [pc |-> "parseSpecSheet", g |-> nGen + 1, files |-> sourceImages,
                        instr |-> userInstructions, productName |-> "", variations |-> <<>>,
                        baseDetails |-> NoContent, i |-> 0, j |-> 0,
                        variationImages |-> <<>>, variationResults |-> <<>>]

\* handleGenerateRuns without the test of sourceImages.length.
handleGenerateRuns_unguarded ==
  /\ startGeneration
  /\ UNCHANGED genFrame

\* The body of handleGenerate of App.tsx up to its first await.
handleGenerateRuns ==
  /\ IF Len(sourceImages) = 0
     THEN /\ error' = "Please upload a product specification sheet."
          /\ UNCHANGED <<generatedContent, isGenerating, generatingMessage, gen, trace, nGen>>
     ELSE startGeneration
  /\ UNCHANGED genFrame

\* A click on the Generate button.
handleGenerate ==
  /\ build \in VariationBuilds
  /\ GenerateEnabled
  /\ nGen + nOps < MaxStarts
  /\ handleGenerateRuns
  /\ last' = Other

\* ------------------------------------------------------------- generateVariationsFromSpecSheet
primaryProductName(g) ==
  IF g.baseDetails.names # <<>> THEN g.baseDetails.names[1] ELSE g.productName

shotsOf(g, i) ==
  Shots(build, Len(g.variations), i, primaryProductName(g),
        g.variations[i].attributes, g.instr)

\* enterVariation that goes to the last variation at once.
enterVariation_skipsAhead(fn, g, i) ==
  generationAwaits(fn, [g EXCEPT !.i = Len(g.variations), !.j = 1, !.variationImages = <<>>],
                   variationMessage(Len(g.variations), Len(g.variations),
                                    g.variations[Len(g.variations)].attributes),
                   "regenerateImageFromSource", shotsOf(g, Len(g.variations))[1].prompt)

\* The top of loop iteration i (i <= totalVariations), up to the first image call.
enterVariation(fn, g, i) ==
  generationAwaits(fn, [g EXCEPT !.i = i, !.j = 1, !.variationImages = <<>>],
                   variationMessage(i, Len(g.variations), g.variations[i].attributes),
                   "regenerateImageFromSource", shotsOf(g, i)[1].prompt)

\* return { baseDetails, variationResults, furnitureCategory: 'furniture' }
variationContent(g) ==
  [baseDetails |-> g.baseDetails, variationResults |-> g.variationResults,
   furnitureCategory |-> "furniture"]

\* const parsedData = await parseSpecSheet(...): an answer (to a client that holds the
\* API key), or a failure.
parseSpecSheetReturns ==
  /\ build \in VariationBuilds
  /\ gen.pc = "parseSpecSheet"
  /\ \/ \E n \in 0..MaxVariations :
          /\ runtime.API_KEY
          /\ LET parsed == ParsedSpecSheet(n)
             IN generationAwaits("parseSpecSheet",
                                 [gen EXCEPT !.productName = parsed.productName,
                                             !.variations = parsed.variations],
                                 "Generating base product details...",
                                 "generateBaseProductDetails", gen.instr)
     \/ \E err \in Failures : generationRejects("parseSpecSheet", err)

\* const baseDetails = await generateBaseProductDetails(...)
generateBaseProductDetailsReturns ==
  /\ build \in VariationBuilds
  /\ gen.pc = "generateBaseProductDetails"
  /\ \/ \E names \in NameLists :
          LET g == [gen EXCEPT !.baseDetails = baseProductDetails(names, gen.productName)]
          IN IF 1 <= Len(g.variations)
             THEN enterVariation("generateBaseProductDetails", g, 1)
             ELSE generationResolves("generateBaseProductDetails", variationContent(g))
     \/ \E err \in Failures : generationRejects("generateBaseProductDetails", err)

\* regenerateImageFromSource throws when the response holds no image.
noImageData(fn) ==
  [isError |-> TRUE,
   message |-> IF fn = "regenerateImageFromSource"
               THEN "Image regeneration failed, no image data returned."
               ELSE "Image editing failed, no image data returned."]

ImageFailures(fn) == {noImageData(fn), [isError |-> FALSE, message |-> ""]}

\* const ...Base64 = await regenerateImageFromSource(sourceFiles, prompt) inside the loop
variationImageReturns ==
  /\ build \in VariationBuilds
  /\ gen.pc = "regenerateImageFromSource"
  /\ \/ LET shots == shotsOf(gen, gen.i)
            shot == shots[gen.j]
            image == GeneratedImage(randomUUID(gen.g, gen.i, gen.j), shot.title,
                                    shot.description,
                                    Image(FromFiles(gen.files), shot.prompt),
                                    shot.prompt, "16:9", shot.category)
            pushed == [gen EXCEPT !.variationImages = Append(@, image)]
            closed == [pushed EXCEPT !.variationResults =
                         Append(@, [id |-> randomUUID(gen.g, gen.i, 0),
                                    variation |-> gen.variations[gen.i].attributes,
                                    images |-> pushed.variationImages])]
        IN IF gen.j < Len(shots)
           THEN generationAwaits("regenerateImageFromSource",
                                 [pushed EXCEPT !.j = gen.j + 1],
                                 shots[gen.j + 1].announce,
                                 "regenerateImageFromSource", shots[gen.j + 1].prompt)
           ELSE IF gen.i < Len(gen.variations)
                THEN enterVariation("regenerateImageFromSource", closed, gen.i + 1)
                ELSE generationResolves("regenerateImageFromSource", variationContent(closed))
     \/ \E err \in ImageFailures("regenerateImageFromSource") :
          generationRejects("regenerateImageFromSource", err)

\* ------------------------------------------------------------- edit and regenerate (App.tsx)
\* What an edit or regeneration leaves alone.
opFrame == <<build, sourceImages, userInstructions, creativeStyle, isGenerating,
             isUpdatingDetails, generatingMessage, gen, trace, nGen, download, runtime>>

Min(a, b) == IF a < b THEN a ELSE b

\* The cards ResultsDisplay renders, each image with the id of its variation; of
\* every variation, the cards the user works on.
Cards(content) ==
  UNION {{[variationId |-> content.variationResults[v].id,
           image |-> content.variationResults[v].images[k]] :
            k \in 1..Min(MaxCards, Len(content.variationResults[v].images))} :
         v \in 1..Len(content.variationResults)}

\* updatedResults that keeps the variation of the image only.
updatedResults_dropsOthers(content, variationId, imageId, newBase64, prompt) ==
  LET kept == SelectSeq(content.variationResults, LAMBDA result : result.id = variationId)
  IN [v \in 1..Len(kept) |->
        [kept[v] EXCEPT !.images =
           [k \in 1..Len(kept[v].images) |->
              IF kept[v].images[k].id = imageId
              THEN [kept[v].images[k] EXCEPT !.base64 = newBase64, !.sourcePrompt = prompt]
              ELSE kept[v].images[k]]]]

\* updatedResults that leaves the sourcePrompt of the image as it was.
updatedResults_keepsPrompt(content, variationId, imageId, newBase64, prompt) ==
  [v \in 1..Len(content.variationResults) |->
     LET result == content.variationResults[v]
     IN IF result.id = variationId
        THEN [result EXCEPT !.images =
                [k \in 1..Len(result.images) |->
                   IF result.images[k].id = imageId
                   THEN [result.images[k] EXCEPT !.base64 = newBase64]
                   ELSE result.images[k]]]
        ELSE result]

\* variationResults.map(result => result.id === variationId
\*    ? {...result, images: result.images.map(img => img.id === imageId ? {...} : img)}
\*    : result)
updatedResults(content, variationId, imageId, newBase64, prompt) ==
  [v \in 1..Len(content.variationResults) |->
     LET result == content.variationResults[v]
     IN IF result.id = variationId
        THEN [result EXCEPT !.images =
                [k \in 1..Len(result.images) |->
                   IF result.images[k].id = imageId
                   THEN [result.images[k] EXCEPT !.base64 = newBase64,
                                                  !.sourcePrompt = prompt]
                   ELSE result.images[k]]]
        ELSE result]

\* finalPrompt of handleRegenerateImage
finalPrompt(sourcePrompt, newPrompt) ==
  IF newPrompt # "" /\ Trim(newPrompt) # ""
  THEN sourcePrompt \o ". Additional instruction for this regeneration: \""
         \o newPrompt \o "\""
  ELSE sourcePrompt

\* The text editImageWithGemini sends with the images.
editRequestText(b, prompt) ==
  IF b = "instructions"
  THEN "[preserve]\n[clean]\n\nUser request: \"" \o prompt \o "\""
  ELSE prompt

\* A call in flight.  `copy` tells apart calls that are equal in everything else.
inFlight(call) ==
  LET copies == {o.copy : o \in {x \in ops : /\ DOMAIN x = DOMAIN call \cup {"copy"}
                                              /\ [f \in DOMAIN call |-> x[f]] = call}}
      copy == CHOOSE c \in 1..(MaxStarts + 1) :
                c \notin copies /\ \A d \in 1..(c - 1) : d \in copies
  IN [f \in DOMAIN call \cup {"copy"} |-> IF f = "copy" THEN copy ELSE call[f]]

\* handleRegenerateImage that sends the image on the card instead of the uploaded files.
handleRegenerateImage_sendsPayload ==
  /\ build \in VariationBuilds
  /\ ResultsShown
  /\ nGen + nOps < MaxStarts
  /\ \E card \in Cards(generatedContent), newPrompt \in CardPrompts :
       /\ CardEnabled(card.image.id)
       /\ Len(sourceImages) # 0
       /\ editingImageId' = card.image.id
       /\ error' = Null
       /\ ops' = ops \cup
            {inFlight([kind |-> "regenerate",
              variationId |-> card.variationId, imageId |-> card.image.id,
              title |-> card.image.title,
              prompt |-> finalPrompt(card.image.sourcePrompt, newPrompt),
              sources |-> FromImages(<<card.image.base64>>),
              text |-> finalPrompt(card.image.sourcePrompt, newPrompt),
              content |-> generatedContent])}
       /\ nOps' = nOps + 1
       /\ last' = Other
       /\ UNCHANGED generatedContent
  /\ UNCHANGED opFrame

\* handleRegenerateImage up to its await.  The handler is the closure of the
\* render the card belongs to: it holds that render's generatedContent and
\* sourceImages.
handleRegenerateImage ==
  /\ build \in VariationBuilds
  /\ ResultsShown
  /\ nGen + nOps < MaxStarts
  /\ \E card \in Cards(generatedContent), newPrompt \in CardPrompts :
       /\ CardEnabled(card.image.id)
       /\ IF Len(sourceImages) = 0
          THEN /\ UNCHANGED <<generatedContent, editingImageId, error, ops, nOps>>
               /\ last' = Other
          ELSE /\ editingImageId' = card.image.id
               /\ error' = Null
               /\ ops' = ops \cup
                    {inFlight([kind |-> "regenerate",
                      variationId |-> card.variationId, imageId |-> card.image.id,
                      title |-> card.image.title,
                      prompt |-> finalPrompt(card.image.sourcePrompt, newPrompt),
                      sources |-> FromFiles(sourceImages),
                      text |-> finalPrompt(card.image.sourcePrompt, newPrompt),
                      content |-> generatedContent])}
               /\ nOps' = nOps + 1
               /\ last' = Other
               /\ UNCHANGED generatedContent
  /\ UNCHANGED opFrame

\* handleEditImage up to its await.
handleEditImage ==
  /\ build \in VariationBuilds
  /\ ResultsShown
  /\ nGen + nOps < MaxStarts
  /\ \E card \in Cards(generatedContent), prompt \in CardPrompts :
       /\ CardEnabled(card.image.id)
       /\ Trim(prompt) # ""
       /\ editingImageId' = card.image.id
       /\ error' = Null
       /\ ops' = ops \cup
            {inFlight([kind |-> "edit",
              variationId |-> card.variationId, imageId |-> card.image.id,
              title |-> card.image.title, prompt |-> prompt,
              sources |-> FromImages(<<card.image.base64>>),
              text |-> editRequestText(build, prompt),
              content |-> generatedContent])}
       /\ nOps' = nOps + 1
       /\ last' = Other
  /\ UNCHANGED generatedContent
  /\ UNCHANGED opFrame

opFunction(op) ==
  IF op.kind = "regenerate" THEN "regenerateImageFromSource" ELSE "editImageWithGemini"

\* imageOpResolves without the finally block.
imageOpResolves_noFinally ==
  /\ build \in VariationBuilds
  /\ \E op \in ops :
       /\ generatedContent' =
            [op.content EXCEPT !.variationResults =
               updatedResults(op.content, op.variationId, op.imageId,
                              Image(op.sources, op.text), op.prompt)]
       /\ ops' = ops \ {op}
       /\ last' = [act |-> "op.done", kind |-> op.kind,
                   variationId |-> op.variationId, imageId |-> op.imageId]
  /\ UNCHANGED <<error, nOps, editingImageId>>
  /\ UNCHANGED opFrame

\* The service answers an edit or regeneration with an image: the rest of the try block,
\* then finally.
imageOpResolves ==
  /\ build \in VariationBuilds
  /\ \E op \in ops :
       /\ generatedContent' =
            [op.content EXCEPT !.variationResults =
               updatedResults(op.content, op.variationId, op.imageId,
                              Image(op.sources, op.text), op.prompt)]
       /\ editingImageId' = Null
       /\ ops' = ops \ {op}
       /\ last' = [act |-> "op.done", kind |-> op.kind,
                   variationId |-> op.variationId, imageId |-> op.imageId]
  /\ UNCHANGED <<error, nOps>>
  /\ UNCHANGED opFrame

\* imageOpRejects without the finally block.
imageOpRejects_noFinally ==
  /\ build \in VariationBuilds
  /\ \E op \in ops : \E err \in ImageFailures(opFunction(op)) :
       /\ error' =
            IF op.kind = "regenerate"
            THEN "Regeneration failed for \"" \o op.title \o "\": "
                   \o errorMessage(err, "An unknown error occurred during regeneration.")
            ELSE "Image edit failed for \"" \o op.title \o "\": "
                   \o errorMessage(err, "An unknown error occurred during edit.")
       /\ ops' = ops \ {op}
       /\ last' = [act |-> "op.catch", kind |-> op.kind, title |-> op.title,
                   err |-> err]
  /\ UNCHANGED <<generatedContent, editingImageId, nOps>>
  /\ UNCHANGED opFrame

\* The call of an edit or regeneration fails: catch, then finally.
imageOpRejects ==
  /\ build \in VariationBuilds
  /\ \E op \in ops : \E err \in ImageFailures(opFunction(op)) :
       /\ error' =
            IF op.kind = "regenerate"
            THEN "Regeneration failed for \"" \o op.title \o "\": "
                   \o errorMessage(err, "An unknown error occurred during regeneration.")
            ELSE "Image edit failed for \"" \o op.title \o "\": "
                   \o errorMessage(err, "An unknown error occurred during edit.")
       /\ editingImageId' = Null
       /\ ops' = ops \ {op}
       /\ last' = [act |-> "op.catch", kind |-> op.kind, title |-> op.title,
                   err |-> err]
  /\ UNCHANGED <<generatedContent, nOps>>
  /\ UNCHANGED opFrame

\* ------------------------------------------------------------- handleReset
\* The Start New button is rendered while generatedContent is not null.
handleReset ==
  /\ build \in VariationBuilds
  /\ ResultsShown
  /\ sourceImages' = <<>>
  /\ userInstructions' = ""
  /\ generatedContent' = NoContent
  /\ error' = Null
  /\ last' = [act |-> "handleReset"]
  /\ UNCHANGED <<build, creativeStyle, isGenerating, isUpdatingDetails, generatingMessage,
                 editingImageId, gen, ops, trace, nGen, nOps, download, runtime>>

\* ------------------------------------------------------------- generateFullPhotoshoot
\* The lifestyle scenes of the style-driven service, by style and room (settings;
\* the prompt of a scene is abbreviated to its setting).
scenes(style, room) ==
  CASE style = "modern_suburban" ->
         (CASE room = "living" -> <<"Modern Open-Concept Living Room", "Suburban Sunroom">>
            [] room = "dining" -> <<"Formal Suburban Dining Room", "Bright Eat-in Kitchen">>
            [] room = "office" -> <<"Peaceful Home Office", "Loft Workspace">>
            [] OTHER -> <<"Serene Master Bedroom", "Chic Guest Bedroom">>)
    [] style = "scandinavian" ->
         (CASE room = "living" -> <<"Airy Scandinavian Loft", "Minimalist Living Space">>
            [] room = "dining" -> <<"Scandinavian Dining Nook">>
            [] room = "office" -> <<"Functional Scandi Office">>
            [] OTHER -> <<"Restful Scandinavian Bedroom">>)
    [] style = "moody_luxurious" ->
         (CASE room = "living" -> <<"Elegant Evening Lounge", "Sophisticated Study">>
            [] room = "dining" -> <<"Dramatic Dining Room">>
            [] room = "office" -> <<"Executive Home Office">>
            [] OTHER -> <<"Luxury Hotel-Style Bedroom">>)
    [] style = "warm_rustic" ->
         (CASE room = "living" -> <<"Cozy Farmhouse Living Room", "Rustic Converted Barn">>
            [] room = "dining" -> <<"Rustic Harvest Kitchen">>
            [] room = "office" -> <<"Comfortable Den Office">>
            [] OTHER -> <<"Cozy Cabin Bedroom">>)
    [] OTHER ->
         (CASE room = "living" -> <<"Urban Industrial Loft", "Artist's Loft Studio">>
            [] room = "dining" -> <<"Loft Dining Area">>
            [] room = "office" -> <<"Startup-Style Loft Office">>
            [] OTHER -> <<"Mezzanine Loft Bedroom">>)

\* getPromptLibraries(category)[style]: the switch over the category.
getPromptLibraries(category, style) ==
  LET room == CASE category \in {"sofa", "chair", "storage"} -> "living"
                [] category = "table" -> "dining"
                [] category = "office" -> "office"
                [] category = "bed" -> "bedroom"
                [] OTHER -> "living"
      settings == scenes(style, room)
  IN [n \in 1..Len(settings) |->
        [setting |-> settings[n], prompt |-> "Task: " \o settings[n] \o " [common]"]]

\* getLifestylePrompts(category) of the single-image service.
getLifestylePrompts(category) ==
  LET settings == CASE category \in {"sofa", "chair"} ->
                         <<"Modern House Living Room", "Cozy Den">>
                    [] category = "table" -> <<"Spacious Dining Room", "Modern Kitchen">>
                    [] category = "office" -> <<"Sunlit Home Office", "Elegant Study Room">>
                    [] OTHER -> <<"Modern House Living Room", "Serene Bedroom">>
  IN [n \in 1..Len(settings) |->
        [setting |-> settings[n], prompt |-> "Task: " \o settings[n]]]

\* prompts.studio and prompts.social
studioPrompts(b) ==
  LET negative == IF b = "styled" THEN " [uniform background]" ELSE ""
  IN << [angle |-> "Front View", prompt |-> "Studio, front." \o negative],
        [angle |-> "Three-Quarter View (Right)", prompt |-> "Studio, right." \o negative],
        [angle |-> "Three-Quarter View (Left)", prompt |-> "Studio, left." \o negative] >>

socialPrompts ==
  << [format |-> "Instagram Post (Square)", prompt |-> "Task: Instagram post.",
      aspectRatio |-> "1:1"],
     [format |-> "Instagram Story (Vertical)", prompt |-> "Task: Instagram story.",
      aspectRatio |-> "9:16"] >>

Task(prompt, title, category, ar) ==
  [prompt |-> prompt, title |-> title, category |-> category, ar |-> ar]

\* processQueue with the social tasks ahead of the lifestyle tasks.
processQueue_socialFirst(b, category, style) ==
  LET studio == studioPrompts(b)
      lifestyle == IF b = "styled" THEN getPromptLibraries(category, style)
                   ELSE getLifestylePrompts(category)
      social == socialPrompts
  IN [n \in 1..Len(studio) |->
        Task(studio[n].prompt, studio[n].angle, "studio", "16:9")]
     \o [n \in 1..Len(social) |->
        Task(social[n].prompt, social[n].format, "social", social[n].aspectRatio)]
     \o [n \in 1..Len(lifestyle) |->
        Task(lifestyle[n].prompt, lifestyle[n].setting, "lifestyle", "16:9")]

\* const processQueue = [...studio, ...lifestyle, ...social]
processQueue(b, category, style) ==
  LET studio == studioPrompts(b)
      lifestyle == IF b = "styled" THEN getPromptLibraries(category, style)
                   ELSE getLifestylePrompts(category)
      social == socialPrompts
  IN [n \in 1..Len(studio) |->
        Task(studio[n].prompt, studio[n].angle, "studio", "16:9")]
     \o [n \in 1..Len(lifestyle) |->
        Task(lifestyle[n].prompt, lifestyle[n].setting, "lifestyle", "16:9")]
     \o [n \in 1..Len(social) |->
        Task(social[n].prompt, social[n].format, "social", social[n].aspectRatio)]

\* const title = task.title || 'Image'
taskTitle(task) == IF task.title # "" THEN task.title ELSE "Image"

imageMessage(i, queue) ==
  "Generating image " \o ToString(i) \o " of " \o ToString(Len(queue)) \o ": "
    \o taskTitle(queue[i]) \o "..."

detailsMessage(b) ==
  IF b = "styled" THEN "Generating product details, tags, and SEO metadata..."
  ELSE "Generating product details..."

\* generateProductDetails: JSON.parse(response.text), with the fields the
\* service's schema requires.
productDetails(names) ==
  IF build = "styled"
  THEN [names |-> names, description |-> "A sofa.", tags |-> <<"sofa">>,
        seoTitle |-> "Sofa", seoDescription |-> "A sofa for your home."]
  ELSE [names |-> names, description |-> "A sofa."]

\* return { details, images: allImages, furnitureCategory }
photoshootContent(b, g) ==
  IF b = "styled"
  THEN [details |-> g.details, images |-> g.images, furnitureCategory |-> g.category]
  ELSE [details |-> g.details, images |-> g.images]

\* handleGenerate of the photoshoot App up to the first await of generateFullPhotoshoot.
handleGenerate_shoot ==
  /\ build \in ShootBuilds
  /\ GenerateEnabled
  /\ nGen + nOps < MaxStarts
  /\ nGen < MaxShoots
  /\ IF Len(sourceImages) = 0
     THEN /\ error' = "Please upload at least one image."
          /\ UNCHANGED <<generatedContent, isGenerating, generatingMessage, gen, trace, nGen>>
     ELSE /\ isGenerating' = TRUE
          /\ error' = Null
          /\ generatedContent' = NoContent
          /\ generatingMessage' = "Analyzing furniture type..."
          /\ trace' = <<Msg("Analyzing furniture type..."), Req("analyzeFurnitureType", "")>>
          /\ gen' = [pc |-> "analyzeFurnitureType", g |-> nGen + 1,
                     file |-> sourceImages[1], style |-> creativeStyle, category |-> "",
                     details |-> NoContent, queue |-> <<>>, i |-> 0, images |-> <<>>]
          /\ nGen' = nGen + 1
  /\ last' = Other
  /\ UNCHANGED genFrame

\* const furnitureCategory = await analyzeFurnitureType(base64Image): the answer's
\* category, or 'sofa' from the function's own catch.
analyzeFurnitureType(answer) == IF answer.ok THEN answer.category ELSE "sofa"

CategoryAnswers ==
  {[ok |-> TRUE, category |-> c] : c \in Categories} \cup {[ok |-> FALSE, category |-> ""]}

analyzeFurnitureTypeReturns ==
  /\ build \in ShootBuilds
  /\ gen.pc = "analyzeFurnitureType"
  /\ \E answer \in CategoryAnswers :
       LET category == analyzeFurnitureType(answer)
       IN generationGoesOn(Ret("analyzeFurnitureType", answer.ok),
                           [gen EXCEPT !.category = category,
                                       !.queue = processQueue(build, category, gen.style)],
                           detailsMessage(build), "generateProductDetails", "")

\* The first iteration of the loop over processQueue, after the call `fn` returned.
enterQueue(fn, g) ==
  generationAwaits(fn, [g EXCEPT !.i = 1], imageMessage(1, g.queue),
                   "editImageWithGemini", g.queue[1].prompt)

\* const details = await generateProductDetails(base64Image)
generateProductDetailsReturns ==
  /\ build \in ShootBuilds
  /\ gen.pc = "generateProductDetails"
  /\ \/ \E names \in NameLists :
          LET g == [gen EXCEPT !.details = productDetails(names)]
          IN IF build = "styled"
             THEN generationAwaits("generateProductDetails", g,
                                   "Generating social media caption...",
                                   "generateSocialMediaCaption", names[1])
             ELSE enterQueue("generateProductDetails", g)
     \/ \E err \in Failures : generationRejects("generateProductDetails", err)

\* const socialCaption = await generateSocialMediaCaption(base64Image, names[0])
generateSocialMediaCaptionReturns ==
  /\ build \in ShootBuilds
  /\ gen.pc = "generateSocialMediaCaption"
  /\ \/ LET caption == "Meet the " \o gen.details.names[1] \o ". #home"
            details == [f \in DOMAIN gen.details \cup {"socialMediaCaption"} |->
                          IF f = "socialMediaCaption" THEN caption ELSE gen.details[f]]
        IN enterQueue("generateSocialMediaCaption", [gen EXCEPT !.details = details])
     \/ \E err \in Failures : generationRejects("generateSocialMediaCaption", err)

\* const base64 = await editImageWithGemini(imageFile, task.prompt) inside the loop
photoshootImageReturns ==
  /\ build \in ShootBuilds
  /\ gen.pc = "editImageWithGemini"
  /\ \/ LET task == gen.queue[gen.i]
            image == GeneratedImage(randomUUID(gen.g, 0, gen.i), taskTitle(task),
                                    "A professionally generated image for your product.",
                                    Image(FromFiles(<<gen.file>>), task.prompt),
                                    task.prompt, task.ar, task.category)
            pushed == [gen EXCEPT !.images = Append(@, image)]
        IN IF gen.i < Len(gen.queue)
           THEN generationAwaits("editImageWithGemini", [pushed EXCEPT !.i = gen.i + 1],
                                 imageMessage(gen.i + 1, gen.queue),
                                 "editImageWithGemini", gen.queue[gen.i + 1].prompt)
           ELSE generationResolves("editImageWithGemini", photoshootContent(build, pushed))
     \/ \E err \in ImageFailures("editImageWithGemini") :
          generationRejects("editImageWithGemini", err)

\* ------------------------------------------------------------- edit and regenerate (photoshoot App)
\* images.map(img => img.id === imageId ? {...img, base64, sourcePrompt} : img)
updatedImages(content, imageId, newBase64, prompt) ==
  [k \in 1..Len(content.images) |->
     IF content.images[k].id = imageId
     THEN [content.images[k] EXCEPT !.base64 = newBase64, !.sourcePrompt = prompt]
     ELSE content.images[k]]

\* The cards the user works on.
ShootCards(content) == {content.images[k] : k \in 1..Min(MaxCards, Len(content.images))}

\* handleRegenerateImage of the photoshoot App up to its await: the scene's own
\* prompt on the first uploaded file.
handleRegenerateImage_shoot ==
  /\ build \in ShootBuilds
  /\ ResultsShown
  /\ nGen + nOps < MaxStarts
  /\ \E image \in ShootCards(generatedContent) :
       /\ CardEnabled(image.id)
       /\ IF Len(sourceImages) = 0
          THEN /\ UNCHANGED <<generatedContent, editingImageId, error, ops, nOps>>
               /\ last' = Other
          ELSE /\ editingImageId' = image.id
               /\ error' = Null
               /\ ops' = ops \cup
                    {inFlight([kind |-> "regenerate", imageId |-> image.id,
                               title |-> image.title, prompt |-> image.sourcePrompt,
                               sources |-> FromFiles(<<sourceImages[1]>>),
                               text |-> image.sourcePrompt,
                               content |-> generatedContent])}
               /\ nOps' = nOps + 1
               /\ last' = Other
               /\ UNCHANGED generatedContent
  /\ UNCHANGED opFrame

\* handleEditImage of the photoshoot App up to its await.
handleEditImage_shoot ==
  /\ build \in ShootBuilds
  /\ ResultsShown
  /\ nGen + nOps < MaxStarts
  /\ \E image \in ShootCards(generatedContent), prompt \in CardPrompts :
       /\ CardEnabled(image.id)
       /\ Trim(prompt) # ""
       /\ editingImageId' = image.id
       /\ error' = Null
       /\ ops' = ops \cup
            {inFlight([kind |-> "edit", imageId |-> image.id, title |-> image.title,
                       prompt |-> prompt, sources |-> FromImages(<<image.base64>>),
                       text |-> prompt, content |-> generatedContent])}
       /\ nOps' = nOps + 1
       /\ last' = Other
  /\ UNCHANGED generatedContent
  /\ UNCHANGED opFrame

\* The rest of the try block of the photoshoot App's handlers, then finally.  A
\* regeneration's prompt is the image's own sourcePrompt, which it leaves in place.
imageOpResolves_shoot ==
  /\ build \in ShootBuilds
  /\ \E op \in ops :
       /\ op.kind # "details"
       /\ generatedContent' =
            [op.content EXCEPT !.images =
               updatedImages(op.content, op.imageId, Image(op.sources, op.text), op.prompt)]
       /\ editingImageId' = Null
       /\ ops' = ops \ {op}
       /\ last' = [act |-> "op.done", kind |-> op.kind, imageId |-> op.imageId]
  /\ UNCHANGED <<error, nOps>>
  /\ UNCHANGED opFrame

imageOpRejects_shoot ==
  /\ build \in ShootBuilds
  /\ \E op \in ops : \E err \in ImageFailures("editImageWithGemini") :
       /\ op.kind # "details"
       /\ error' =
            IF op.kind = "regenerate"
            THEN "Regeneration failed for \"" \o op.title \o "\": "
                   \o errorMessage(err, "An unknown error occurred during regeneration.")
            ELSE "Image edit failed for \"" \o op.title \o "\": "
                   \o errorMessage(err, "An unknown error occurred during edit.")
       /\ editingImageId' = Null
       /\ ops' = ops \ {op}
       /\ last' = [act |-> "op.catch", kind |-> op.kind, title |-> op.title,
                   err |-> err]
  /\ UNCHANGED <<generatedContent, nOps>>
  /\ UNCHANGED opFrame

\* ------------------------------------------------------------- handleRegenerateDetails
\* What a regeneration of the details leaves alone.
detailsFrame == <<build, sourceImages, userInstructions, creativeStyle, isGenerating,
                  generatingMessage, editingImageId, gen, trace, nGen, download, runtime>>

\* regenerateDetailsFromNewName: JSON.parse(response.text), with the fields the
\* service's schema requires.
newDetails(newName) ==
  [description |-> "Meet the " \o newName \o ".", seoTitle |-> newName,
   seoDescription |-> "Buy the " \o newName \o "."]

\* spread that keeps the fields of newDetails only.
spread_newOnly(details, new) == new

\* { ...prevContent.details, ...newDetails }
spread(details, new) ==
  [f \in DOMAIN details \cup DOMAIN new |-> IF f \in DOMAIN new THEN new[f] ELSE details[f]]

\* handleRegenerateDetails up to its await; the button is disabled while
\* isUpdatingDetails, the name field holds one of the suggested names.
handleRegenerateDetails ==
  /\ build = "styled"
  /\ ResultsShown
  /\ ~isUpdatingDetails
  /\ nGen + nOps < MaxStarts
  /\ \E n \in 1..Len(generatedContent.details.names) :
       IF Len(sourceImages) = 0
       THEN UNCHANGED <<isUpdatingDetails, error, ops, nOps>>
       ELSE /\ isUpdatingDetails' = TRUE
            /\ error' = Null
            /\ ops' = ops \cup {[kind |-> "details", file |-> sourceImages[1],
                                 newName |-> generatedContent.details.names[n]]}
            /\ nOps' = nOps + 1
  /\ last' = Other
  /\ UNCHANGED generatedContent
  /\ UNCHANGED detailsFrame

\* The service answers: setGeneratedContent(prevContent => ...), then finally.
regenerateDetailsResolves ==
  /\ build = "styled"
  /\ \E op \in ops :
       /\ op.kind = "details"
       /\ generatedContent' =
            IF generatedContent = NoContent THEN NoContent
            ELSE [generatedContent EXCEPT !.details = spread(@, newDetails(op.newName))]
       /\ isUpdatingDetails' = FALSE
       /\ ops' = ops \ {op}
       /\ last' = [act |-> "details.done", newName |-> op.newName]
  /\ UNCHANGED <<error, nOps>>
  /\ UNCHANGED detailsFrame

\* The call fails: catch, then finally.
regenerateDetailsRejects ==
  /\ build = "styled"
  /\ \E op \in ops : \E err \in Failures :
       /\ op.kind = "details"
       /\ error' = "Failed to regenerate details: "
                     \o errorMessage(err, "An unknown error occurred during detail regeneration.")
       /\ isUpdatingDetails' = FALSE
       /\ ops' = ops \ {op}
       /\ last' = [act |-> "details.catch", err |-> err]
  /\ UNCHANGED <<generatedContent, nOps>>
  /\ UNCHANGED detailsFrame

setCreativeStyle ==
  /\ build = "styled"
  /\ UploaderShown
  /\ \E style \in CreativeStyles : creativeStyle' = style
  /\ last' = Other
  /\ UNCHANGED <<build, sourceImages, userInstructions, generatedContent, isGenerating,
                 isUpdatingDetails, generatingMessage, editingImageId, error, gen, ops,
                 trace, nGen, nOps, download, runtime>>

handleReset_shoot ==
  /\ build \in ShootBuilds
  /\ ResultsShown
  /\ sourceImages' = <<>>
  /\ generatedContent' = NoContent
  /\ error' = Null
  /\ last' = [act |-> "handleReset"]
  /\ UNCHANGED <<build, userInstructions, creativeStyle, isGenerating, isUpdatingDetails,
                 generatingMessage, editingImageId, gen, ops, trace, nGen, nOps, download, runtime>>

\* ------------------------------------------------------------- specifications
\* App.tsx with generateVariationsFromSpecSheet.
Next ==
  \/ handleFileChange
  \/ removeFile
  \/ setUserInstructions
  \/ dismissError
  \/ handleGenerate
  \/ parseSpecSheetReturns
  \/ generateBaseProductDetailsReturns
  \/ variationImageReturns
  \/ handleRegenerateImage
  \/ handleEditImage
  \/ imageOpResolves
  \/ imageOpRejects
  \/ handleReset

Spec == Init /\ [][Next]_vars

\* App.tsx when every call to the service is answered, with a result or an error:
\* a generation that awaits a call goes on, an edit or regeneration that awaits its
\* call completes.
generationCallReturns ==
  parseSpecSheetReturns \/ generateBaseProductDetailsReturns \/ variationImageReturns
imageCallReturns == imageOpResolves \/ imageOpRejects

\* The user starts at most MaxLiveStarts operations.
mayStart == nGen + nOps < MaxLiveStarts

NextLive ==
  \/ handleFileChange
  \/ removeFile
  \/ setUserInstructions
  \/ dismissError
  \/ (mayStart /\ handleGenerate)
  \/ parseSpecSheetReturns
  \/ generateBaseProductDetailsReturns
  \/ variationImageReturns
  \/ (mayStart /\ handleRegenerateImage)
  \/ (mayStart /\ handleEditImage)
  \/ imageOpResolves
  \/ imageOpRejects
  \/ handleReset

SpecLive ==
  Init /\ [][NextLive]_vars /\ WF_vars(generationCallReturns) /\ WF_vars(imageCallReturns)

\* App.tsx with its guards against a missing source file put to use: handleGenerate
\* and generateVariationsFromSpecSheet are also called with no file uploaded, which
\* the disabled Generate button keeps the user from doing.
handleGenerateWithoutSource ==
  /\ build \in VariationBuilds
  /\ UploaderShown
  /\ Len(sourceImages) = 0
  /\ handleGenerateRuns
  /\ last' = [act |-> "handleGenerate", files |-> sourceImages]

\* A call of the orchestrator from outside handleGenerate, followed up to its first
\* await.
callGenerateVariationsFromSpecSheet ==
  /\ build \in VariationBuilds
  /\ gen = Idle
  /\ \E sourceFiles \in {<<>>} \cup Uploads :
       last' = [act |-> "generateVariationsFromSpecSheet", files |-> sourceFiles,
                start |-> generateVariationsFromSpecSheet(sourceFiles)]
  /\ UNCHANGED <<build, sourceImages, userInstructions, creativeStyle, generatedContent,
                 isGenerating, isUpdatingDetails, generatingMessage, editingImageId, error,
                 gen, ops, trace, nGen, nOps, download, runtime>>

NextGuard == Next \/ handleGenerateWithoutSource \/ callGenerateVariationsFromSpecSheet

SpecGuard == Init /\ [][NextGuard]_vars

\* The photoshoot App with generateFullPhotoshoot.
InitShoot == \E b \in ShootBuilds : Mounted(b)

NextShoot ==
  \/ handleFileChange
  \/ removeFile
  \/ setCreativeStyle
  \/ dismissError
  \/ handleGenerate_shoot
  \/ analyzeFurnitureTypeReturns
  \/ generateProductDetailsReturns
  \/ generateSocialMediaCaptionReturns
  \/ photoshootImageReturns
  \/ handleRegenerateImage_shoot
  \/ handleEditImage_shoot
  \/ imageOpResolves_shoot
  \/ imageOpRejects_shoot
  \/ handleRegenerateDetails
  \/ regenerateDetailsResolves
  \/ regenerateDetailsRejects
  \/ handleReset_shoot

SpecShoot == InitShoot /\ [][NextShoot]_vars

\* Either App.
InitAll == \E b \in Builds : Mounted(b)
NextAll == Next \/ NextShoot
SpecAll == InitAll /\ [][NextAll]_vars

\* ------------------------------------------------------------- startup
\* The page loads the modules of build b, with or without API_KEY in the
\* environment.
InitStartup ==
  \E b \in Builds, key \in BOOLEAN :
    /\ AppState(b)
    /\ download = NoDownload
    /\ runtime = [API_KEY |-> key, status |-> "loading"]

\* The load of services/geminiService.  The photoshoot services throw without
\* API_KEY (if (!API_KEY) throw new Error(...)) and the App is never rendered; the
\* variation services build their client on the first call (getAiClient).
loadModule ==
  /\ runtime.status = "loading"
  /\ runtime' = [runtime EXCEPT !.status =
                   IF build \in ShootBuilds /\ ~runtime.API_KEY THEN "threw" ELSE "loaded"]
  /\ UNCHANGED <<build, sourceImages, userInstructions, creativeStyle, generatedContent,
                 isGenerating, isUpdatingDetails, generatingMessage, editingImageId, error,
                 gen, ops, trace, nGen, nOps, last, download>>

NextStartup == loadModule \/ NextAll

SpecStartup == InitStartup /\ [][NextStartup]_vars

\* ------------------------------------------------------------- export (utils/fileUtils)
\* A text is a sequence of characters.  A literal of the source that holds none
\* of the characters the code looks for is written as one element.
Chars == {"A", "a", "1", " ", "/", ".", "-", "_", ","}
CsvChars == {"a", ",", "\"", "\n"}

Texts(chars, maxLen) == UNION {[1..n -> chars] : n \in 0..maxLen}

\* String.prototype.toLowerCase()
toLowerCase(str) == [n \in 1..Len(str) |-> IF str[n] = "A" THEN "a" ELSE str[n]]

\* safeTitle without toLowerCase().
safeTitle_keepsCase(title) ==
  [n \in 1..Len(title) |-> IF title[n] \in {"A", "a", "1"} THEN title[n] ELSE "_"]

\* image.title.replace(/[^a-z0-9]/gi, '_').toLowerCase()
safeTitle(title) ==
  toLowerCase([n \in 1..Len(title) |-> IF title[n] \in {"A", "a", "1"} THEN title[n] ELSE "_"])

\* .replace(/\s+/g, '-'): every run of whitespace becomes one dash.
RECURSIVE replaceWhitespace(_)
replaceWhitespace(str) ==
  IF str = <<>> THEN <<>>
  ELSE IF str[1] # " " THEN <<str[1]>> \o replaceWhitespace(Tail(str))
  ELSE IF Len(str) > 1 /\ str[2] = " " THEN replaceWhitespace(Tail(str))
  ELSE <<"-">> \o replaceWhitespace(Tail(str))

\* const handle = productName.toLowerCase().replace(/\s+/g, '-').replace(/[^a-z0-9-]/g, '')
handle(productName) ==
  SelectSeq(replaceWhitespace(toLowerCase(productName)), LAMBDA c : c \in {"a", "1", "-"})

\* (index + 1).toString(), and the number a template literal interpolates
RECURSIVE toString(_)
toString(n) ==
  LET digit == <<"0", "1", "2", "3", "4", "5", "6", "7", "8", "9">>[(n % 10) + 1]
  IN IF n < 10 THEN <<digit>> ELSE toString(n \div 10) \o <<digit>>

png == <<".", "p", "n", "g">>

\* JSZip's file(name, data): a new entry, or new data for the entry of that name.
file(zip, name, data) ==
  IF \E n \in 1..Len(zip) : zip[n].name = name
  THEN [n \in 1..Len(zip) |-> IF zip[n].name = name THEN [name |-> name, data |-> data]
                              ELSE zip[n]]
  ELSE Append(zip, [name |-> name, data |-> data])

\* images.forEach(image => zip.file(<name>, image.base64, { base64: true }))
RECURSIVE fileEach(_, _, _)
fileEach(zip, names, images) ==
  IF names = <<>> THEN zip
  ELSE fileEach(file(zip, Head(names), Head(images).base64), Tail(names), Tail(images))

\* createAndDownloadZip that leaves the index out of the file names.
createAndDownloadZip_noIndex(images, productName, productDescription) ==
  LET detailsText == [productName |-> productName, description |-> productDescription]
      fileName(n) == safeTitle(images[n].title) \o png
      safeProductName == safeTitle(productName)
  IN [zip |-> fileEach(file(<<>>, <<"d", "e", "t", "a", "i", "l", "s", ".", "t", "x", "t">>,
                            detailsText),
                       [n \in 1..Len(images) |-> fileName(n)], images),
      zipFileName |-> IF safeProductName # <<>> THEN safeProductName
                      ELSE <<"ai-furniture-photoshoot">>]

createAndDownloadZip(images, productName, productDescription) ==
  LET detailsText == [productName |-> productName, description |-> productDescription]
      fileName(n) == toString(n) \o <<"_">> \o safeTitle(images[n].title) \o png
      safeProductName == safeTitle(productName)
  IN [zip |-> fileEach(file(<<>>, <<"d", "e", "t", "a", "i", "l", "s", ".", "t", "x", "t">>,
                            detailsText),
                       [n \in 1..Len(images) |-> fileName(n)], images),
      zipFileName |-> IF safeProductName # <<>> THEN safeProductName
                      ELSE <<"ai-furniture-photoshoot">>]

createAndDownloadSocialMediaZip(images, caption, productName) ==
  LET fileName(n) == safeTitle(images[n].title) \o png
  IN [zip |-> fileEach(file(<<>>, <<"c", "a", "p", "t", "i", "o", "n", ".", "t", "x", "t">>,
                            caption),
                       [n \in 1..Len(images) |-> fileName(n)], images),
      zipFileName |-> safeTitle(productName) \o <<"-social-kit">>]

\* Array.prototype.join on texts
RECURSIVE joinTexts(_, _)
joinTexts(texts, sep) ==
  IF texts = <<>> THEN <<>>
  ELSE IF Len(texts) = 1 THEN texts[1]
  ELSE texts[1] \o sep \o joinTexts(Tail(texts), sep)

\* str.replace(/"/g, '""')
RECURSIVE doubleQuotes(_)
doubleQuotes(str) ==
  IF str = <<>> THEN <<>>
  ELSE (IF str[1] = "\"" THEN <<"\"", "\"">> ELSE <<str[1]>>) \o doubleQuotes(Tail(str))

\* quoted that leaves the embedded quotes single.
quoted_singleQuotes(str) ==
  IF \E n \in 1..Len(str) : str[n] \in {"\"", ",", "\n"}
  THEN <<"\"">> \o str \o <<"\"">>
  ELSE str

\* The field function of toCSVString:
\* /[",\n]/.test(str) ? `"${str.replace(/"/g, '""')}"` : str
quoted(str) ==
  IF \E n \in 1..Len(str) : str[n] \in {"\"", ",", "\n"}
  THEN <<"\"">> \o doubleQuotes(str) \o <<"\"">>
  ELSE str

toCSVString(rows) ==
  joinTexts([r \in 1..Len(rows) |->
               joinTexts([f \in 1..Len(rows[r]) |-> quoted(rows[r][f])], <<",">>)],
            <<"\n">>)

\* escape of generateShopifyCSV
escape(str) ==
  IF str = <<>> THEN <<>>
  ELSE IF (\E n \in 1..Len(str) : str[n] = "\"") \/ (\E n \in 1..Len(str) : str[n] = ",")
          \/ (\E n \in 1..Len(str) : str[n] = "\n")
       THEN <<"\"">> \o doubleQuotes(str) \o <<"\"">>
       ELSE str

\* headers of generateShopifyCSV
csvHeaders ==
  << <<"Handle">>, <<"Title">>, <<"Body (HTML)">>, <<"Vendor">>, <<"Standard Product Type">>,
     <<"Tags">>, <<"Published">>, <<"Option1 Name">>, <<"Option1 Value">>,
     <<"Option2 Name">>, <<"Option2 Value">>, <<"Option3 Name">>, <<"Option3 Value">>,
     <<"Variant SKU">>, <<"Variant Grams">>, <<"Variant Inventory Tracker">>,
     <<"Variant Inventory Qty">>, <<"Variant Price">>, <<"Variant Compare At Price">>,
     <<"Requires Shipping">>, <<"Taxable">>, <<"Barcode">>, <<"Image Src">>,
     <<"Image Position">>, <<"Image Alt Text">>, <<"SEO Title">>, <<"SEO Description">> >>

\* rows.push(row.map(escape)) for every row, then csvContent
csvContent(rows) ==
  LET escaped == [r \in 1..Len(rows) |-> [f \in 1..Len(rows[r]) |-> escape(rows[r][f])]]
  IN joinTexts(<<joinTexts(csvHeaders, <<",">>)>>
                 \o [r \in 1..Len(escaped) |-> joinTexts(escaped[r], <<",">>)],
               <<"\n">>)

\* .replace(/[^a-z0-9]+/g, '-'): every run of other characters becomes one dash.
RECURSIVE replaceRuns(_)
replaceRuns(str) ==
  IF str = <<>> THEN <<>>
  ELSE IF str[1] \in {"a", "1"} THEN <<str[1]>> \o replaceRuns(Tail(str))
  ELSE IF Len(str) > 1 /\ str[2] \notin {"a", "1"} THEN replaceRuns(Tail(str))
  ELSE <<"-">> \o replaceRuns(Tail(str))

\* .replace(/^-+|-+$/g, '')
RECURSIVE trimDashes(_)
trimDashes(str) ==
  IF str = <<>> THEN <<>>
  ELSE IF str[1] = "-" THEN trimDashes(Tail(str))
  ELSE IF str[Len(str)] = "-" THEN trimDashes(SubSeq(str, 1, Len(str) - 1))
  ELSE str

\* handle of generateShopifyCSV
csvHandle(name) == trimDashes(replaceRuns(toLowerCase(name)))

\* baseDetails.description.replace(/\n/g, '<br>')
bodyHtml(description) ==
  [n \in 1..Len(description) |-> IF description[n] = "\n" THEN "<br>" ELSE description[n]]

\* baseDetails.suggestedPrice ? baseDetails.suggestedPrice.replace(/[^0-9.]/g, '') : "0.00"
price(suggestedPrice) ==
  IF suggestedPrice # <<>>
  THEN SelectSeq(suggestedPrice,
                 LAMBDA c : c \in {"0", "1", "2", "3", "4", "5", "6", "7", "8", "9", "."})
  ELSE <<"0.00">>

\* Object.keys(variationResults[0].variation).slice(0, 3); a variation is its
\* attributes as (key, value) pairs in key order.
optionNames(variationResults) ==
  IF Len(variationResults) > 0
  THEN [n \in 1..Min(3, Len(variationResults[1].variation)) |->
          variationResults[1].variation[n][1]]
  ELSE <<>>

\* variation[key]; escape writes a value that is undefined as '', as it writes ''.
optValue(variation, key) ==
  LET hits == {n \in 1..Len(variation) : variation[n][1] = key}
  IN IF hits = {} THEN <<>> ELSE variation[CHOOSE n \in hits : TRUE][2]

\* const sku = `${handle}-${index + 1}` (index from 1 here)
sku(csvhandle, index) == csvhandle \o <<"-">> \o toString(index)

\* The row of the variation result at index, before row.map(escape).
csvRow(content, index) ==
  LET baseDetails == content.baseDetails
      variation == content.variationResults[index].variation
      names == optionNames(content.variationResults)
      name(k) == IF Len(names) > k - 1 THEN names[k] ELSE <<>>
      value(k) == IF Len(names) > k - 1 THEN optValue(variation, names[k]) ELSE <<>>
  IN << csvHandle(baseDetails.names[1]), baseDetails.names[1],
        bodyHtml(baseDetails.description), <<"AI Furniture Design">>,
        IF content.furnitureCategory # <<>> THEN content.furnitureCategory
        ELSE <<"Furniture">>,
        joinTexts(baseDetails.tags, <<",", " ">>), <<"TRUE">>,
        name(1), value(1), name(2), value(2), name(3), value(3),
        sku(csvHandle(baseDetails.names[1]), index),
        <<"10000">>, <<"shopify">>, <<"10">>, price(baseDetails.suggestedPrice), <<>>,
        <<"TRUE">>, <<"TRUE">>, <<>>, <<>>, <<>>, <<>>,
        baseDetails.seoTitle, baseDetails.seoDescription >>

\* The text generateShopifyCSV hands to the download and the download's name, or the
\* TypeError of baseDetails.names[0].toLowerCase() for a content without a name.
generateShopifyCSV(content) ==
  IF content.baseDetails.names = <<>>
  THEN [threw |-> TRUE, csv |-> <<>>, fileName |-> <<>>]
  ELSE [threw |-> FALSE,
        csv |-> csvContent([i \in 1..Len(content.variationResults) |-> csvRow(content, i)]),
        fileName |-> csvHandle(content.baseDetails.names[1]) \o <<"-shopify_import.csv">>]

headers ==
  << <<"Handle">>, <<"Title">>, <<"Body (HTML)">>, <<"Vendor">>, <<"Product Category">>,
     <<"Type">>, <<"Tags">>, <<"Published">>, <<"Option1 Name">>, <<"Option1 Value">>,
     <<"Variant SKU">>, <<"Variant Price">>, <<"Image Src">>, <<"Image Position">>,
     <<"Image Alt Text">>, <<"SEO Title">>, <<"SEO Description">>, <<"Gift Card">> >>

\* shopifyRow that numbers the positions from 0.
shopifyRow_fromZero(data, image, index, imageName) ==
  IF index = 1
  THEN << handle(data.productName), data.productName, data.description, data.vendor,
          <<"Home & Garden > Furniture">>, data.productType,
          joinTexts(data.tags, <<",", " ">>), <<"TRUE">>, <<"Title">>, <<"Default Title">>,
          <<>>, data.price, imageName, <<"0">>, image.title, data.seoTitle,
          data.seoDescription, <<"FALSE">> >>
  ELSE << handle(data.productName), <<>>, <<>>, <<>>, <<>>, <<>>, <<>>, <<>>, <<>>, <<>>,
          <<>>, <<>>, imageName, toString(index - 1), image.title, <<>>, <<>>, <<>> >>

\* The row pushed for the image at index (1-based here).
shopifyRow(data, image, index, imageName) ==
  IF index = 1
  THEN << handle(data.productName), data.productName, data.description, data.vendor,
          <<"Home & Garden > Furniture">>, data.productType,
          joinTexts(data.tags, <<",", " ">>), <<"TRUE">>, <<"Title">>, <<"Default Title">>,
          <<>>, data.price, imageName, <<"1">>, image.title, data.seoTitle,
          data.seoDescription, <<"FALSE">> >>
  ELSE << handle(data.productName), <<>>, <<>>, <<>>, <<>>, <<>>, <<>>, <<>>, <<>>, <<>>,
          <<>>, <<>>, imageName, toString(index), image.title, <<>>, <<>>, <<>> >>

\* Returns what it put in the archive and whether it went on to the download.
createAndDownloadShopifyZip(data) ==
  LET shopifyImages == SelectSeq(data.images, LAMBDA img : img.category # "social")
      imageName(n) == handle(data.productName) \o <<"_">> \o toString(n) \o <<"_">>
                        \o safeTitle(shopifyImages[n].title) \o png
      names == [n \in 1..Len(shopifyImages) |-> imageName(n)]
      rows == <<headers>> \o [n \in 1..Len(shopifyImages) |->
                                shopifyRow(data, shopifyImages[n], n, names[n])]
  IN IF Len(shopifyImages) = 0
     THEN [alert |-> TRUE, zip |-> <<>>, zipFileName |-> <<>>]
     ELSE [alert |-> FALSE,
           zip |-> file(fileEach(<<>>, names, shopifyImages),
                        <<"s", "h", "o", "p", "i", "f", "y", "_", "i", "m", "p", "o", "r",
                          "t", ".", "c", "s", "v">>,
                        toCSVString(rows)),
           zipFileName |-> handle(data.productName) \o <<"-shopify-import">>]

\* What ResultsDisplay hands to an export: the images on screen, each with its own
\* payload, and the product name of the name field.
ExportImages ==
  UNION {[1..n -> [title : Texts(Chars, MaxTitleLen),
                   category : {"studio", "lifestyle", "social"}]] : n \in 0..MaxImages}

withBase64(images) ==
  [n \in 1..Len(images) |->
     [title |-> images[n].title, category |-> images[n].category, base64 |-> n]]

ShopifyExportData(images, productName) ==
  [images |-> images, productName |-> productName,
   description |-> <<"Deep seat", ",", " ", "\"", "Luna", "\"", "\n", "velvet">>,
   vendor |-> <<"My Furniture Store">>, price |-> <<"999.99">>,
   tags |-> << <<"sofa">>, <<"velvet">> >>, productType |-> <<"sofa">>,
   seoTitle |-> <<"Luna Sofa">>, seoDescription |-> <<"A sofa", ",", " ", "for you">>]

Tables ==
  UNION {[1..r -> UNION {[1..f -> Texts(CsvChars, MaxFieldLen)] : f \in 1..MaxFields}] :
         r \in 1..MaxRows}

\* The attributes of a variation: the first k of four keys, each with a value made
\* of v.
AttributeKeys == << <<"Size">>, <<"Dimensions">>, <<"Color">>, <<"Material">> >>
variationOf(k, v) ==
  [j \in 1..k |-> <<AttributeKeys[j], IF j = 1 THEN v ELSE v \o toString(j)>>]

CsvVariationResults ==
  LET variations == {variationOf(k, v) : k \in {0, 2, 4}, v \in Texts(CsvChars, MaxFieldLen)}
  IN UNION {[1..n -> [variation : variations]] : n \in 0..MaxRows}

\* The contents handed to generateShopifyCSV: of any product name or none, with the
\* details generateBaseProductDetails returns.
CsvContents ==
  {[baseDetails |->
      [names |-> names,
       description |-> <<"Deep seat", ",", " ", "\"", "Luna", "\"", "\n", "velvet">>,
       tags |-> << <<"sofa">>, <<"velvet">> >>,
       suggestedPrice |-> <<"$", "1", ",", "2", "9", "9", ".", "9", "9">>,
       seoTitle |-> <<"Luna Sofa">>, seoDescription |-> <<"A sofa", ",", " ", "for you">>],
    variationResults |-> results, furnitureCategory |-> <<"furniture">>] :
     names \in {<<>>} \cup {<<name>> : name \in Texts(Chars, MaxNameLen)},
     results \in CsvVariationResults}

Ready(input) == [pc |-> "ready", fn |-> "", input |-> input, out |-> NoDownload]
Done(fn, out) == [pc |-> "done", fn |-> fn, input |-> download.input, out |-> out]

\* An export starts from results on screen; which results is of no concern to the
\* export utilities, and the App state is kept at its initial value.
InitExport ==
  /\ AppState("styled")
  /\ runtime = Loaded
  /\ \/ \E images \in ExportImages, productName \in Texts(Chars, MaxNameLen) :
          download = Ready([images |-> withBase64(images), productName |-> productName])
     \/ \E rows \in Tables : download = Ready([rows |-> rows])
     \/ \E content \in CsvContents : download = Ready([content |-> content])

appFrame == <<build, sourceImages, userInstructions, creativeStyle, generatedContent,
              isGenerating, isUpdatingDetails, generatingMessage, editingImageId, error,
              gen, ops, trace, nGen, nOps, last, runtime>>

\* socialImages that keeps every image.
socialImages_all(images) == images

\* images.filter(img => img.category === 'social')
socialImages(images) == SelectSeq(images, LAMBDA img : img.category = "social")

\* images.filter(img => img.category !== 'social')
nonSocialImages(images) == SelectSeq(images, LAMBDA img : img.category # "social")

\* const handleDownload = () => createAndDownloadZip(images, finalProductName, description)
handleDownload ==
  /\ download.pc = "ready"
  /\ "images" \in DOMAIN download.input
  /\ download' = Done("createAndDownloadZip",
                      createAndDownloadZip(download.input.images, download.input.productName,
                                           <<"A sofa.">>))
  /\ UNCHANGED appFrame

handleShopifyDownload ==
  /\ download.pc = "ready"
  /\ "images" \in DOMAIN download.input
  /\ download' = Done("createAndDownloadShopifyZip",
                      createAndDownloadShopifyZip(
                        ShopifyExportData(nonSocialImages(download.input.images),
                                          download.input.productName)))
  /\ UNCHANGED appFrame

handleSocialMediaDownload ==
  /\ download.pc = "ready"
  /\ "images" \in DOMAIN download.input
  /\ download' = Done("createAndDownloadSocialMediaZip",
                      createAndDownloadSocialMediaZip(socialImages(download.input.images),
                                                      <<"Meet the Luna Sofa.">>,
                                                      download.input.productName))
  /\ UNCHANGED appFrame

\* const csvContent = toCSVString(rows)
toCSVStringReturns ==
  /\ download.pc = "ready"
  /\ "rows" \in DOMAIN download.input
  /\ download' = Done("toCSVString", toCSVString(download.input.rows))
  /\ UNCHANGED appFrame

\* generateShopifyCSV(content)
generateShopifyCSVReturns ==
  /\ download.pc = "ready"
  /\ "content" \in DOMAIN download.input
  /\ download' = Done("generateShopifyCSV", generateShopifyCSV(download.input.content))
  /\ UNCHANGED appFrame

NextExport ==
  \/ handleDownload
  \/ handleShopifyDownload
  \/ handleSocialMediaDownload
  \/ toCSVStringReturns
  \/ generateShopifyCSVReturns

SpecExport == InitExport /\ [][NextExport]_vars

\* ------------------------------------------------------------- properties
\* `after` is `before` but for the base64 and sourcePrompt of image imageId of
\* variation variationId.
onlyImageDiffers(before, after, variationId, imageId) ==
  /\ before # NoContent
  /\ after # NoContent
  /\ after.baseDetails = before.baseDetails
  /\ after.furnitureCategory = before.furnitureCategory
  /\ Len(after.variationResults) = Len(before.variationResults)
  /\ \A v \in 1..Len(before.variationResults) :
       LET b == before.variationResults[v]
           a == after.variationResults[v]
       IN /\ a.id = b.id
          /\ a.variation = b.variation
          /\ Len(a.images) = Len(b.images)
          /\ \A k \in 1..Len(b.images) :
               IF b.id = variationId /\ b.images[k].id = imageId
               THEN [a.images[k] EXCEPT !.base64 = b.images[k].base64,
                                        !.sourcePrompt = b.images[k].sourcePrompt]
                      = b.images[k]
               ELSE a.images[k] = b.images[k]

\* C1: a successful handleEditImage or handleRegenerateImage for image X of
\* variation V changes, against the generatedContent right before its completion,
\* nothing but X's base64 and sourcePrompt.
C1_CompletionChangesOnlyItsImage ==
  [][last'.act = "op.done"
       => onlyImageDiffers(generatedContent, generatedContent',
                           last'.variationId, last'.imageId)]_vars

\* C2: handleReset leaves sourceImages empty, userInstructions '', generatedContent
\* null and error null, and generatedContent leaves null only when a handleGenerate
\* succeeds: no edit or regeneration started earlier writes it.
C2_ResetStaysUntilGenerate ==
  [][/\ last'.act = "handleReset"
          => /\ sourceImages' = <<>>
             /\ userInstructions' = ""
             /\ generatedContent' = NoContent
             /\ error' = Null
     /\ (generatedContent = NoContent /\ generatedContent' # NoContent)
          => last'.act = "handleGenerate.done"]_vars

\* C3: when the service call of handleEditImage or handleRegenerateImage fails,
\* generatedContent is what it was, error is 'Image edit failed for "<title>":
\* <message>' respectively 'Regeneration failed for "<title>": <message>', and
\* editingImageId is null.
C3_FailureLeavesContent ==
  [][last'.act = "op.catch"
       => /\ generatedContent' = generatedContent
          /\ editingImageId' = Null
          /\ error' =
               IF last'.kind = "edit"
               THEN "Image edit failed for \"" \o last'.title \o "\": "
                      \o (IF last'.err.isError THEN last'.err.message
                          ELSE "An unknown error occurred during edit.")
               ELSE "Regeneration failed for \"" \o last'.title \o "\": "
                      \o (IF last'.err.isError THEN last'.err.message
                          ELSE "An unknown error occurred during regeneration.")]_vars

\* C3's case: an edit of the front view failed with no image data while results
\* are shown.
C3_Witness ==
  /\ last.act = "op.catch"
  /\ last.kind = "edit"
  /\ generatedContent # NoContent
  /\ editingImageId = Null
  /\ error = "Image edit failed for \"Studio Shot (Front View)\": "
               \o "Image editing failed, no image data returned."

\* Every card ResultsDisplay renders.
renderedCards(content) ==
  IF content = NoContent THEN {}
  ELSE UNION {{content.variationResults[v].images[k] :
                 k \in 1..Len(content.variationResults[v].images)} :
              v \in 1..Len(content.variationResults)}

\* C4: at most one operation that mutates generatedContent is in flight, and while
\* an edit or regeneration awaits the service no card offers an enabled trigger.
C4_OneMutationInFlight ==
  /\ Cardinality(ops) + (IF gen = Idle THEN 0 ELSE 1) <= 1
  /\ ops # {} => \A image \in renderedCards(generatedContent) : ~CardEnabled(image.id)

\* The texts of the requests of call fn in a trace, in order.
requested(tr, fn) ==
  LET reqs == SelectSeq(tr, LAMBDA e : e.e = "req" /\ e.fn = fn)
  IN [n \in 1..Len(reqs) |-> reqs[n].text]

\* All studio tasks, then all lifestyle tasks, then all social tasks.
inDeclaredOrder(queue) ==
  LET rank(c) == CASE c = "studio" -> 1 [] c = "lifestyle" -> 2 [] OTHER -> 3
  IN \A m, n \in 1..Len(queue) :
       m < n => rank(queue[m].category) <= rank(queue[n].category)

\* C5: when generateFullPhotoshoot returns, for whatever category and style,
\* editImageWithGemini was called once per processQueue entry in the declared
\* order, and the i-th returned image carries the title, sourcePrompt, category and
\* aspect ratio of the i-th task.
C5_QueueServedInOrder ==
  [][(build \in ShootBuilds /\ last'.act = "handleGenerate.done")
       => LET queue == gen.queue
              images == generatedContent'.images
          IN /\ inDeclaredOrder(queue)
             /\ requested(trace', "editImageWithGemini")
                  = [n \in 1..Len(queue) |-> queue[n].prompt]
             /\ Len(images) = Len(queue)
             /\ \A n \in 1..Len(queue) :
                  /\ images[n].title = queue[n].title
                  /\ images[n].sourcePrompt = queue[n].prompt
                  /\ images[n].category = queue[n].category
                  /\ images[n].sourceAspectRatio = queue[n].ar]_vars

\* C5's case: a photoshoot of a piece classified outside the list, in the
\* Scandinavian style, has returned its seven images.
C5_Witness ==
  /\ build = "styled"
  /\ last.act = "handleGenerate.done"
  /\ generatedContent.furnitureCategory = "ottoman"
  /\ Len(generatedContent.images) = 7
  /\ generatedContent.images[4].title = "Airy Scandinavian Loft"
  /\ generatedContent.images[7].sourceAspectRatio = "9:16"

\* This step handles the failure of the external call the generation awaited.
generationCallFails ==
  /\ gen.pc # "idle"
  /\ Len(trace') > Len(trace)
  /\ trace'[Len(trace) + 1] = Ret(gen.pc, FALSE)

\* What handleGenerate's catch and finally leave, after the failure the step handled.
generationFailedWith(err) ==
  /\ error' = "Generation failed: "
                \o (IF err.isError THEN err.message
                    ELSE "An unknown error occurred during generation.")
  /\ isGenerating' = FALSE

\* C6 as stated: whichever external call of a generation fails, classification
\* included, handleGenerate ends with error = 'Generation failed: <message>',
\* generatedContent = null and isGenerating = false.
C6_AnyFailureRejects ==
  [][generationCallFails
       => /\ last'.act = "handleGenerate.catch"
          /\ generationFailedWith(last'.err)
          /\ generatedContent' = NoContent]_vars

\* C6 amended: a failed classification is answered 'sofa' and the generation goes
\* on; any other failed call ends handleGenerate with error = 'Generation failed:
\* <message>', isGenerating = false, generatingMessage = '' and generatedContent
\* left as it was.
C6_FailureRejectsButClassification ==
  [][generationCallFails
       => IF gen.pc = "analyzeFurnitureType"
          THEN /\ gen'.pc = "generateProductDetails"
               /\ gen'.category = "sofa"
               /\ isGenerating'
               /\ UNCHANGED <<error, generatedContent>>
          ELSE /\ last'.act = "handleGenerate.catch"
               /\ generationFailedWith(last'.err)
               /\ generatingMessage' = ""
               /\ gen' = Idle
               /\ UNCHANGED generatedContent]_vars

\* C6's case: the classification failed, the generation went on, and the caption
\* call failed.
C6_Witness ==
  /\ build = "styled"
  /\ last.act = "handleGenerate.catch"
  /\ Len(trace) > 3
  /\ trace[3] = Ret("analyzeFurnitureType", FALSE)
  /\ trace[Len(trace)] = Ret("generateSocialMediaCaption", FALSE)
  /\ error = "Generation failed: quota exceeded"
  /\ generatedContent = NoContent
  /\ ~isGenerating

\* C7: a handleGenerate starts only while none is in flight, isGenerating is true
\* exactly while one is, and the Generate trigger is disabled while it is.
C7_OneGenerationAtATime ==
  [][/\ nGen' = nGen + 1 => (gen = Idle /\ ~isGenerating)
     /\ isGenerating' <=> (gen' # Idle)
     /\ isGenerating' => ~GenerateEnabled']_vars

\* C7's case: a generation awaits an image while the uploader, with a file in it,
\* is on screen.
C7_Witness ==
  /\ isGenerating
  /\ gen.pc = "regenerateImageFromSource"
  /\ UploaderShown
  /\ Len(sourceImages) > 0
  /\ ~GenerateEnabled

\* The requests of the first n events of a trace that have not returned.
outstanding(tr, n) ==
  Cardinality({m \in 1..n : tr[m].e = "req"}) - Cardinality({m \in 1..n : tr[m].e = "ret"})

\* The prompts of the image calls of generation g up to shot j of variation i.
RECURSIVE imagePrompts(_, _, _)
imagePrompts(g, i, j) ==
  IF i = 0 THEN <<>>
  ELSE (IF i = 1 THEN <<>> ELSE imagePrompts(g, i - 1, Len(shotsOf(g, i - 1))))
         \o [n \in 1..j |-> shotsOf(g, i)[n].prompt]

\* C8: in a generateVariationsFromSpecSheet run at most one request is
\* outstanding; the requests are the parse, then the base details, then the image
\* calls of variation 1, then those of variation 2, ..., each issued after the
\* previous one returned.
C8_OneRequestInOrder ==
  LET reqs == SelectSeq(trace, LAMBDA e : e.e = "req")
  IN /\ \A n \in 1..Len(trace) : outstanding(trace, n) \in {0, 1}
     /\ \A n \in 1..Len(reqs) :
          reqs[n].fn = (CASE n = 1 -> "parseSpecSheet"
                          [] n = 2 -> "generateBaseProductDetails"
                          [] OTHER -> "regenerateImageFromSource")
     /\ gen.pc # "idle"
          => /\ outstanding(trace, Len(trace)) = 1
             /\ requested(trace, "regenerateImageFromSource")
                  = imagePrompts(gen, gen.i, gen.j)

\* C8's case: the lifestyle call of the second of two variations is outstanding.
C8_Witness ==
  /\ gen.pc = "regenerateImageFromSource"
  /\ Len(gen.variations) = 2
  /\ gen.i = 2
  /\ gen.j = 2
  /\ Len(requested(trace, "regenerateImageFromSource")) = 4

\* C9: a failed call is the last call of its generation, and after an image call
\* of a generation failed generatedContent stays null: none of the images the
\* generation produced shows.
C9_FailedGenerationShowsNothing ==
  /\ \A n \in 1..Len(trace) :
       (trace[n].e = "ret" /\ ~trace[n].ok) => n = Len(trace)
  /\ (trace # <<>> /\ trace[Len(trace)] = Ret("regenerateImageFromSource", FALSE))
       => generatedContent = NoContent

\* C10: every external call of a generation comes right after an updateMessage
\* issued once the previous call returned, so generatingMessage is not empty while
\* a call is outstanding; 'Finalizing your photoshoot...' comes after the last
\* call returned; generatingMessage is '' once handleGenerate has finished.
C10_StepsAnnounced ==
  /\ \A n \in 1..Len(trace) :
       trace[n].e = "req"
         => /\ n > 1
            /\ trace[n - 1].e = "msg"
            /\ trace[n - 1].text # ""
            /\ n > 2 => trace[n - 2].e = "ret"
            /\ gen.pc # "idle" /\ n = Len(trace) => generatingMessage = trace[n - 1].text
  /\ gen.pc # "idle" => generatingMessage # ""
  /\ \A n \in 1..Len(trace) :
       trace[n] = Msg("Finalizing your photoshoot...")
         => /\ n = Len(trace)
            /\ n > 1
            /\ trace[n - 1].e = "ret"
            /\ trace[n - 1].ok
  /\ gen.pc = "idle" => generatingMessage = ""

\* C10's case: a generation for one variation has finished after its five image
\* calls.
C10_Witness ==
  /\ build = "instructions"
  /\ last.act = "handleGenerate.done"
  /\ trace[Len(trace)] = Msg("Finalizing your photoshoot...")
  /\ Len(requested(trace, "regenerateImageFromSource")) = 5
  /\ generatingMessage = ""

\* The export fn has run.
exported(fn) == download.pc = "done" /\ download.fn = fn

\* The entries of an archive but the one named metadata.
imageEntries(zip, metadata) == SelectSeq(zip, LAMBDA e : e.name # metadata)

detailsTxt == <<"d", "e", "t", "a", "i", "l", "s", ".", "t", "x", "t">>
captionTxt == <<"c", "a", "p", "t", "i", "o", "n", ".", "t", "x", "t">>
shopifyCsv == <<"s", "h", "o", "p", "i", "f", "y", "_", "i", "m", "p", "o", "r", "t", ".",
                "c", "s", "v">>

\* The archive holds one entry per image of `images`, in their order and each with
\* its image's payload, and one entry named metadata; no two names are equal.
oneEntryPerImage(zip, images, metadata) ==
  /\ Len(zip) = Len(images) + 1
  /\ Cardinality({n \in 1..Len(zip) : zip[n].name = metadata}) = 1
  /\ \A m, n \in 1..Len(zip) : m # n => zip[m].name # zip[n].name
  /\ LET entries == imageEntries(zip, metadata)
     IN /\ Len(entries) = Len(images)
        /\ \A n \in 1..Len(images) : entries[n].data = images[n].base64

\* C11: createAndDownloadZip writes one entry per image, under pairwise distinct
\* names, and one 'details.txt'; createAndDownloadShopifyZip, given a non-social
\* image, writes one entry per non-social image, under pairwise distinct names, and
\* one 'shopify_import.csv'; whatever the titles.
C11_OneEntryPerImage ==
  /\ exported("createAndDownloadZip")
       => oneEntryPerImage(download.out.zip, download.input.images, detailsTxt)
  /\ exported("createAndDownloadShopifyZip")
       => LET shopifyImages == SelectSeq(download.input.images,
                                         LAMBDA img : img.category # "social")
          IN IF Len(shopifyImages) = 0 THEN download.out.alert /\ download.out.zip = <<>>
             ELSE /\ ~download.out.alert
                  /\ oneEntryPerImage(download.out.zip, shopifyImages, shopifyCsv)

\* C11's case: createAndDownloadZip was given two images whose titles differ in case
\* only.
C11_Witness ==
  /\ exported("createAndDownloadZip")
  /\ Len(download.input.images) = 2
  /\ download.input.images[1].title = <<"A">>
  /\ download.input.images[2].title = <<"a">>
  /\ Len(download.out.zip) = 3
  /\ download.out.zip[2].name = <<"1", "_", "a", ".", "p", "n", "g">>
  /\ download.out.zip[3].name = <<"2", "_", "a", ".", "p", "n", "g">>

\* C12: createAndDownloadSocialMediaZip writes one entry per image it is given and
\* one 'caption.txt', also for images whose titles are equal once sanitized.
C12_SocialOneEntryPerImage ==
  exported("createAndDownloadSocialMediaZip")
    => oneEntryPerImage(download.out.zip, socialImages(download.input.images), captionTxt)

LowerCaseLetters ==
  {"a", "b", "c", "d", "e", "f", "g", "h", "i", "j", "k", "l", "m", "n", "o", "p", "q",
   "r", "s", "t", "u", "v", "w", "x", "y", "z"}
Digits == {"0", "1", "2", "3", "4", "5", "6", "7", "8", "9"}

\* name is characters of [a-z0-9_-] followed by '.png'.
safeName(name) ==
  /\ Len(name) >= 4
  /\ SubSeq(name, Len(name) - 3, Len(name)) = <<".", "p", "n", "g">>
  /\ \A n \in 1..(Len(name) - 4) : name[n] \in LowerCaseLetters \cup Digits \cup {"_", "-"}

\* C13: every image entry an export writes is named by characters of [a-z0-9_-]
\* followed by '.png', and the Shopify handle is of [a-z0-9-] only.
C13_SafeNames ==
  /\ \A fn \in {"createAndDownloadZip", "createAndDownloadSocialMediaZip",
                "createAndDownloadShopifyZip"} :
       exported(fn)
         => \A n \in 1..Len(download.out.zip) :
              download.out.zip[n].name \in {detailsTxt, captionTxt, shopifyCsv}
                \/ safeName(download.out.zip[n].name)
  /\ exported("createAndDownloadShopifyZip")
       => LET h == handle(download.input.productName)
          IN /\ \A n \in 1..Len(h) : h[n] \in LowerCaseLetters \cup Digits \cup {"-"}
             /\ \A e \in 1..Len(imageEntries(download.out.zip, shopifyCsv)) :
                  SubSeq(imageEntries(download.out.zip, shopifyCsv)[e].name, 1, Len(h)) = h

\* C13's case: the Shopify export of an image titled '/' for the product 'A ' wrote
\* 'a-_1__.png'.
C13_Witness ==
  /\ exported("createAndDownloadShopifyZip")
  /\ download.input.productName = <<"A", " ">>
  /\ Len(download.input.images) = 1
  /\ download.input.images[1].title = <<"/">>
  /\ download.out.zip[1].name = <<"a", "-", "_", "1", "_", "_", ".", "p", "n", "g">>

\* The pieces of a text between the positions of cuts.
split(text, cuts) ==
  LET k == Cardinality(cuts)
      cut(j) == IF j = 0 THEN 0
                ELSE IF j = k + 1 THEN Len(text) + 1
                ELSE CHOOSE i \in cuts : Cardinality({m \in cuts : m < i}) = j - 1
  IN [j \in 1..(k + 1) |-> SubSeq(text, cut(j - 1) + 1, cut(j) - 1)]

\* The positions of sep outside double quotes: those with an even number of double
\* quotes before them.
separators(text, sep) ==
  LET quotes == {m \in 1..Len(text) : text[m] = "\""}
  IN {i \in 1..Len(text) :
        text[i] = sep /\ Cardinality({m \in quotes : m < i}) % 2 = 0}

\* A field that opens with a double quote is what is between it and the closing
\* one, every doubled double quote taken once.
unquote(field) ==
  IF field # <<>> /\ field[1] = "\""
  THEN LET inner == SubSeq(field, 2, Len(field) - 1)
           quotes == {m \in 1..Len(inner) : inner[m] = "\""}
           kept == {n \in 1..Len(inner) :
                      n \in quotes => Cardinality({m \in quotes : m <= n}) % 2 = 0}
       IN [j \in 1..Cardinality(kept) |->
             inner[CHOOSE n \in kept : Cardinality({m \in kept : m < n}) = j - 1]]
  ELSE field

\* The quoted-CSV reading of a text: rows end at a newline and fields at a comma
\* outside double quotes.
parseCSV(text) ==
  LET lines == split(text, separators(text, "\n"))
  IN [r \in 1..Len(lines) |->
        LET fields == split(lines[r], separators(lines[r], ","))
        IN [f \in 1..Len(fields) |-> unquote(fields[f])]]

special(str) == \E n \in 1..Len(str) : str[n] \in {",", "\"", "\n"}

\* The rows an export wrote as CSV, before quoting: those handed to toCSVString,
\* those generateShopifyCSV built.
rowsWritten ==
  IF "rows" \in DOMAIN download.input THEN download.input.rows
  ELSE IF download.input.content.baseDetails.names = <<>> THEN <<>>
  ELSE [i \in 1..Len(download.input.content.variationResults) |->
          csvRow(download.input.content, i)]

\* C14: toCSVString, and escape of generateShopifyCSV, put a field that holds a
\* comma, a double quote or a newline between double quotes with every double quote
\* of it doubled and leave any other field as it is; read back by the quoted-CSV
\* rules the output is the rows that were written.
C14_CsvRoundTrip ==
  /\ \A fn \in {"toCSVString", "generateShopifyCSV"} :
       exported(fn)
         => \A r \in 1..Len(rowsWritten) : \A f \in 1..Len(rowsWritten[r]) :
              LET str == rowsWritten[r][f]
                  written == IF fn = "toCSVString" THEN quoted(str) ELSE escape(str)
              IN IF special(str)
                 THEN /\ written[1] = "\"" /\ written[Len(written)] = "\""
                      /\ Len(written) = Len(str) + 2
                           + Cardinality({n \in 1..Len(str) : str[n] = "\""})
                      /\ parseCSV(written) = <<<<str>>>>
                 ELSE written = str
  /\ exported("toCSVString")
       => parseCSV(download.out) = download.input.rows
  /\ (exported("generateShopifyCSV") /\ ~download.out.threw)
       => Tail(parseCSV(download.out.csv)) = rowsWritten

\* C14's case: a row of a double quote and a comma was written as """",",".
C14_Witness ==
  /\ exported("toCSVString")
  /\ download.input.rows = << << <<"\"">>, <<",">> >> >>
  /\ download.out = <<"\"", "\"", "\"", "\"", ",", "\"", ",", "\"">>

\* C15: the data rows of shopify_import.csv match the image entries of the archive
\* one to one and in order: row i has the i-th entry's name as Image Src, i as Image
\* Position, the handle of every other row and the 18 fields of the header; Title,
\* Body, Vendor, Type, Tags, Price and the SEO fields are empty but in row 1.
C15_RowsMatchEntries ==
  (exported("createAndDownloadShopifyZip") /\ ~download.out.alert)
    => LET zip == download.out.zip
           entries == imageEntries(zip, shopifyCsv)
           csv == zip[CHOOSE n \in 1..Len(zip) : zip[n].name = shopifyCsv].data
           table == parseCSV(csv)
       IN /\ Len(table) = Len(entries) + 1
          /\ table[1] = headers
          /\ Len(headers) = 18
          /\ \A i \in 1..Len(entries) :
               LET row == table[i + 1]
               IN /\ Len(row) = 18
                  /\ row[13] = entries[i].name
                  /\ row[14] = toString(i)
                  /\ row[1] = table[2][1]
                  /\ row[1] = handle(download.input.productName)
                  /\ i > 1 => \A f \in {2, 3, 4, 6, 7, 12, 16, 17} : row[f] = <<>>
          /\ table[2][2] = download.input.productName
          /\ table[2][7] = <<"sofa", ",", " ", "velvet">>

\* C15's case: the Shopify export of two studio images, the second titled ','.
C15_Witness ==
  /\ exported("createAndDownloadShopifyZip")
  /\ ~download.out.alert
  /\ Len(download.input.images) = 2
  /\ download.input.images[2].title = <<",">>
  /\ download.input.productName = <<"A", ",">>
  /\ Len(download.out.zip) = 3
  /\ download.out.zip[2].name = <<"a", "_", "2", "_", "_", ".", "p", "n", "g">>

\* The variations and images of a content without the payloads and prompts: per
\* variation its id and attributes, per image its id, title and category.
skeleton(content) ==
  [v \in 1..Len(content.variationResults) |->
     [id |-> content.variationResults[v].id,
      variation |-> content.variationResults[v].variation,
      images |-> [k \in 1..Len(content.variationResults[v].images) |->
                    [id |-> content.variationResults[v].images[k].id,
                     title |-> content.variationResults[v].images[k].title,
                     category |-> content.variationResults[v].images[k].category]]]]

\* No id is used twice: variation ids differ, and an image id is the id of one image
\* of one variation.
idsDistinct(content) ==
  LET results == content.variationResults
      places == {<<v, k>> : v \in 1..Len(results), k \in 1..MaxVariations + 5}
      images == {pl \in places : pl[2] <= Len(results[pl[1]].images)}
  IN /\ \A v, w \in 1..Len(results) : v # w => results[v].id # results[w].id
     /\ \A pl, q \in images :
          pl # q => results[pl[1]].images[pl[2]].id # results[q[1]].images[q[2]].id

\* C16: while generatedContent is not null no id is used twice; and the completion
\* or failure of an edit or regeneration leaves the variations and images of the
\* generation on screen as they are in number, order, ids, titles and categories
\* (the fresh ids tell the generation on screen from an earlier one).
C16_IdsAndShapeKept ==
  [][/\ generatedContent' # NoContent => idsDistinct(generatedContent')
     /\ (/\ last'.act \in {"op.done", "op.catch"}
         /\ generatedContent # NoContent
         /\ generatedContent' # NoContent
         /\ generatedContent.variationResults # <<>>
         /\ generatedContent.variationResults[1].id
              = generatedContent'.variationResults[1].id)
          => skeleton(generatedContent') = skeleton(generatedContent)]_vars

\* C16's case: with two variations on screen an edit has completed while another
\* operation awaits the service.
C16_Witness ==
  /\ last.act = "op.done"
  /\ generatedContent # NoContent
  /\ Len(generatedContent.variationResults) = 2
  /\ ops # {}
  /\ idsDistinct(generatedContent)

\* C17: without the API credential the application fails while it loads, before
\* any user action: the upload view is never usable and no generation request is
\* ever sent.
C17_NoCredentialNoStart ==
  ~runtime.API_KEY
    => /\ runtime.status # "loaded"
       /\ ~UploaderShown
       /\ trace = <<>>

\* C18: generateVariationsFromSpecSheet of the user-instruction service, for a
\* sheet of n variations, returns n variation results in parsed order, one image
\* per image call in call order: for n = 1 five calls (studio front, studio 3/4,
\* three lifestyle scenes), for n >= 2 two calls per variation (studio front, then
\* lifestyle), for n = 0 no image call, an empty list and no error.
C18_ImagesPerVariationCount ==
  [][/\ (build = "instructions" /\ last'.act = "handleGenerate.done")
          => LET n == Len(gen.variations)
                 per == IF n = 1 THEN 5 ELSE 2
                 calls == requested(trace', "regenerateImageFromSource")
                 results == generatedContent'.variationResults
             IN /\ Len(results) = n
                /\ Len(calls) = n * per
                /\ \A v \in 1..n :
                     /\ results[v].variation = gen.variations[v].attributes
                     /\ [k \in 1..Len(results[v].images) |-> results[v].images[k].title]
                          = IF n = 1
                            THEN <<"Studio Shot (Front View)", "Studio Shot (3/4 View)",
                                   "Lifestyle: Living Space", "Lifestyle: Atmospheric/Cozy",
                                   "Lifestyle: Architectural Loft">>
                            ELSE <<"Studio Shot (Front View)", "Minimalist Lifestyle Scene">>
                     /\ \A k \in 1..per :
                          /\ results[v].images[k].sourcePrompt = calls[(v - 1) * per + k]
                          /\ results[v].images[k].category
                               = IF k <= (IF n = 1 THEN 2 ELSE 1) THEN "studio" ELSE "lifestyle"
     /\ (/\ build = "instructions"
         /\ gen.pc = "generateBaseProductDetails"
         /\ gen.variations = <<>>
         /\ Len(trace') > Len(trace)
         /\ trace'[Len(trace) + 1] = Ret("generateBaseProductDetails", TRUE))
          => /\ last'.act = "handleGenerate.done"
             /\ generatedContent'.variationResults = <<>>
             /\ error' = error]_vars

\* C18's case: the generation for a sheet that lists no variation has returned.
C18_Witness ==
  /\ build = "instructions"
  /\ last.act = "handleGenerate.done"
  /\ generatedContent # NoContent
  /\ generatedContent.variationResults = <<>>
  /\ requested(trace, "regenerateImageFromSource") = <<>>
  /\ error = Null

\* The image imageId of variation variationId of a content.
imageOf(content, variationId, imageId) ==
  LET result == CHOOSE r \in {content.variationResults[v] :
                                v \in 1..Len(content.variationResults)} : r.id = variationId
  IN CHOOSE img \in {result.images[k] : k \in 1..Len(result.images)} : img.id = imageId

\* newer is older followed by the instructions of at most MaxStarts regenerations.
RECURSIVE grownFrom(_, _, _)
grownFrom(older, newer, k) ==
  \/ newer = older
  \/ /\ k > 0
     /\ \E p \in {q \in CardPrompts : Trim(q) # ""} :
          grownFrom(older \o ". Additional instruction for this regeneration: \"" \o p
                      \o "\"", newer, k - 1)

\* What a completed regeneration sent and stored: the sourcePrompt its card showed,
\* alone for a blank extra prompt, followed by the instruction otherwise.
regenerationStoresWhatItSent ==
  (last'.act = "op.done" /\ last'.kind = "regenerate")
    => LET op == CHOOSE o \in ops : o \notin ops'
           shown == imageOf(op.content, op.variationId, op.imageId).sourcePrompt
           stored == imageOf(generatedContent', op.variationId, op.imageId).sourcePrompt
       IN /\ stored = op.text
          /\ \E p \in CardPrompts :
               op.text = IF Trim(p) = "" THEN shown
                         ELSE shown \o ". Additional instruction for this regeneration: \""
                                \o p \o "\""

\* C19: a regeneration with a blank extra prompt sends and keeps the image's
\* sourcePrompt; with an extra prompt p it sends and stores the sourcePrompt
\* followed by the instruction p; so under regenerations every image's sourcePrompt
\* only grows by the instructions given, in order.
C19_PromptOnlyGrows ==
  [][/\ regenerationStoresWhatItSent
     /\ (/\ last'.act = "op.done"
         /\ last'.kind = "regenerate"
         /\ generatedContent # NoContent
         /\ skeleton(generatedContent) = skeleton(generatedContent'))
          => \A v \in 1..Len(generatedContent.variationResults) :
               \A k \in 1..Len(generatedContent.variationResults[v].images) :
                 grownFrom(generatedContent.variationResults[v].images[k].sourcePrompt,
                           generatedContent'.variationResults[v].images[k].sourcePrompt,
                           MaxStarts)]_vars

\* C20: a successful handleRegenerateDetails changes, in the content that is current
\* when the answer arrives, details.description, details.seoTitle and
\* details.seoDescription only; it leaves a content that was reset meanwhile null;
\* a failed one changes nothing but error, which becomes 'Failed to regenerate
\* details: <message>'.
C20_DetailsOnly ==
  [][/\ last'.act = "details.done"
          => /\ error' = error
             /\ IF generatedContent = NoContent THEN generatedContent' = NoContent
                ELSE /\ generatedContent' # NoContent
                     /\ DOMAIN generatedContent' = DOMAIN generatedContent
                     /\ generatedContent'.images = generatedContent.images
                     /\ generatedContent'.furnitureCategory = generatedContent.furnitureCategory
                     /\ DOMAIN generatedContent'.details = DOMAIN generatedContent.details
                     /\ \A f \in DOMAIN generatedContent.details
                                   \ {"description", "seoTitle", "seoDescription"} :
                          generatedContent'.details[f] = generatedContent.details[f]
                     /\ generatedContent'.details.description
                          = "Meet the " \o last'.newName \o "."
     /\ last'.act = "details.catch"
          => /\ generatedContent' = generatedContent
             /\ error' = "Failed to regenerate details: "
                           \o (IF last'.err.isError THEN last'.err.message
                               ELSE "An unknown error occurred during detail regeneration.")
     /\ last'.act \in {"details.done", "details.catch"}
          => /\ ~isUpdatingDetails'
             /\ UNCHANGED <<sourceImages, creativeStyle, isGenerating, generatingMessage,
                            editingImageId>>]_vars

\* C20's case: the details were regenerated for the second suggested name while an
\* image operation awaits the service.
C20_Witness ==
  /\ last.act = "details.done"
  /\ last.newName = "Aria Couch"
  /\ generatedContent # NoContent
  /\ generatedContent.details.description = "Meet the Aria Couch."
  /\ generatedContent.details.names = <<"Luna Sofa", "Aria Couch">>
  /\ generatedContent.details.socialMediaCaption = "Meet the Luna Sofa. #home"
  /\ ops # {}

\* C21: while an edit or regeneration of image X awaits the service,
\* editingImageId is X's id and X's card offers no enabled trigger, so no second
\* edit or regeneration of X can start before the first has completed, whatever
\* happens on other images.
C21_BusyImageStaysDisabled ==
  \A op \in ops : editingImageId = op.imageId /\ ~CardEnabled(op.imageId)

\* C22: in the photoshoot App, once a regeneration of the details has been applied,
\* description, seoTitle and seoDescription stay as they are in generatedContent
\* until the next regeneration of the details, reset or generation, also when an
\* image edit or regeneration started before the answer completes afterwards.
C22_DetailsSurviveImageOps ==
  [][(/\ generatedContent # NoContent
      /\ generatedContent.details.description # productDetails(<<>>).description
      /\ last'.act \notin {"details.done", "handleReset", "handleGenerate.done"}
      /\ generatedContent' # NoContent)
       => /\ generatedContent'.details.description = generatedContent.details.description
          /\ generatedContent'.details.seoTitle = generatedContent.details.seoTitle
          /\ generatedContent'.details.seoDescription
               = generatedContent.details.seoDescription]_vars

\* The payload of the image is the answer to a call that was handed the image's
\* sourcePrompt: an image generation or regeneration, which sends the prompt as it
\* is with the uploaded files, or an edit, which sends it in its request text with
\* an image.
pairFromOneOperation(image) ==
  image.base64.text = IF "images" \in DOMAIN image.base64.sources
                      THEN editRequestText(build, image.sourcePrompt)
                      ELSE image.sourcePrompt

\* C23: in every state, for every image of generatedContent, sourcePrompt is the
\* prompt of the generation, regeneration or edit whose answer is the image's
\* base64; no interleaving of generate, edit, regenerate and reset leaves an image
\* with the payload of one operation and the sourcePrompt of another.
C23_PayloadAndPromptTogether ==
  \A image \in renderedCards(generatedContent) : pairFromOneOperation(image)

\* C23's case: results hold an edited image and the image a regeneration has just
\* replaced.
C23_Witness ==
  /\ last.act = "op.done"
  /\ last.kind = "regenerate"
  /\ \E edited, regenerated \in renderedCards(generatedContent) :
       /\ "images" \in DOMAIN edited.base64.sources
       /\ edited.sourcePrompt = "add a rug"
       /\ regenerated.id = last.imageId
       /\ regenerated.id # edited.id
       /\ "files" \in DOMAIN regenerated.base64.sources
       /\ regenerated.base64.text = regenerated.sourcePrompt

C25_FinishesAndClearsFlags ==
  /\ [](gen = Idle => (~isGenerating /\ generatingMessage = ""))
  /\ [](ops = {} => editingImageId = Null)
  /\ (gen # Idle \/ ops # {}) ~> (gen = Idle /\ ops = {})

\* C25's case: after a generation an edit was started, and it has finished with a
\* failure.
C25_Witness ==
  /\ last.act = "op.catch"
  /\ last.kind = "edit"
  /\ nGen = 1
  /\ nOps = 1
  /\ ops = {}
  /\ gen = Idle
  /\ editingImageId = Null
  /\ ~isGenerating
  /\ generatingMessage = ""

\* The payloads of the image entries of an archive, in order.
payloads(zip, metadata) ==
  [n \in 1..Len(imageEntries(zip, metadata)) |-> imageEntries(zip, metadata)[n].data]

\* No two of the images get the same file name in the social kit.
distinctSocialNames(images) ==
  \A m, n \in 1..Len(images) :
    m # n => safeTitle(images[m].title) # safeTitle(images[n].title)

\* C26: of the images on screen the Shopify export holds those whose category is
\* not 'social', each once, and no social image; the social kit holds the social
\* images (each once, their titles being distinct as those of the generated social
\* formats are) and no other image; so every image is in exactly one of the two
\* exports; without a non-social image the Shopify export writes no archive.
C26_EachImageInOneExport ==
  LET images == download.input.images
      forShopify == nonSocialImages(images)
      forSocial == socialImages(images)
  IN /\ exported("createAndDownloadShopifyZip")
          => IF \A n \in 1..Len(images) : images[n].category = "social"
             THEN download.out.alert /\ download.out.zip = <<>>
             ELSE /\ ~download.out.alert
                  /\ payloads(download.out.zip, shopifyCsv)
                       = [n \in 1..Len(forShopify) |-> forShopify[n].base64]
                  /\ \A n \in 1..Len(images) :
                       (\E e \in 1..Len(payloads(download.out.zip, shopifyCsv)) :
                          payloads(download.out.zip, shopifyCsv)[e] = images[n].base64)
                         <=> images[n].category # "social"
     /\ exported("createAndDownloadSocialMediaZip")
          => /\ \A e \in 1..Len(imageEntries(download.out.zip, captionTxt)) :
                  \E n \in 1..Len(images) :
                    /\ images[n].category = "social"
                    /\ imageEntries(download.out.zip, captionTxt)[e].data = images[n].base64
             /\ distinctSocialNames(forSocial)
                  => payloads(download.out.zip, captionTxt)
                       = [n \in 1..Len(forSocial) |-> forSocial[n].base64]
     /\ (exported("createAndDownloadShopifyZip") \/ exported("createAndDownloadSocialMediaZip"))
          => \A n \in 1..Len(images) :
               Cardinality({k \in 1..Len(forShopify) : forShopify[k] = images[n]})
                 + Cardinality({k \in 1..Len(forSocial) : forSocial[k] = images[n]}) = 1

\* C26's case: of a lifestyle image and a social image the social kit holds the
\* second only.
C26_Witness ==
  /\ exported("createAndDownloadSocialMediaZip")
  /\ Len(download.input.images) = 2
  /\ download.input.images[1].category = "lifestyle"
  /\ download.input.images[2].category = "social"
  /\ download.input.images[1].title = download.input.images[2].title
  /\ Len(download.out.zip) = 2
  /\ download.out.zip[2].data = 2

\* The table read back from the text generateShopifyCSV wrote is the header and one
\* row per variation result, in order: every row of 27 fields, with the handle of
\* the first name, the SKU '<handle>-<i>', as option names the first three (or
\* fewer) keys of the first variation and as option values the variation's own
\* values for these keys.
rowsAsClaimed ==
  LET content == download.input.content
      results == content.variationResults
      table == parseCSV(download.out.csv)
      h == csvHandle(content.baseDetails.names[1])
      keys == IF results = <<>> THEN <<>>
              ELSE [n \in 1..Min(3, Len(results[1].variation)) |-> results[1].variation[n][1]]
  IN /\ Len(csvHeaders) = 27
     /\ Len(table) = Len(results) + 1
     /\ table[1] = csvHeaders
     /\ \A i \in 1..Len(results) :
          LET row == table[i + 1]
          IN /\ Len(row) = 27
             /\ row[1] = h
             /\ row[14] = h \o <<"-">> \o toString(i)
             /\ \A j \in 1..Len(results) : j # i => table[j + 1][14] # row[14]
             /\ \A k \in 1..3 :
                  IF k <= Len(keys)
                  THEN /\ row[6 + 2 * k] = keys[k]
                       /\ row[7 + 2 * k] = optValue(results[i].variation, keys[k])
                  ELSE row[6 + 2 * k] = <<>> /\ row[7 + 2 * k] = <<>>

\* C27: generateShopifyCSV writes one data row per variation result, in order, all
\* with the same Handle, row i with the Variant SKU '<handle>-<i>', every row with
\* the 27 fields of the header, and with the first at most three attribute keys of
\* the first variation as option names; for whatever content.
C27_OneRowPerVariation ==
  exported("generateShopifyCSV") => (~download.out.threw /\ rowsAsClaimed)

\* What holds of generateShopifyCSV: the rows are as claimed for a content with a
\* first product name, and nothing is written for a content without.
rowsWhenNamed ==
  exported("generateShopifyCSV")
    => IF download.input.content.baseDetails.names = <<>>
       THEN download.out.threw /\ download.out.csv = <<>>
       ELSE ~download.out.threw /\ rowsAsClaimed

\* A content of two variations of four attributes was written.
rowsWritten_reached ==
  /\ exported("generateShopifyCSV")
  /\ ~download.out.threw
  /\ Len(download.input.content.variationResults) = 2
  /\ download.input.content.baseDetails.names = << <<"A", "/">> >>
  /\ Len(download.input.content.variationResults[1].variation) = 4
  /\ Len(download.input.content.variationResults[2].variation) = 2
  /\ download.input.content.variationResults[2].variation[1][2] = <<"\n">>
  /\ parseCSV(download.out.csv)[3][14] = <<"a", "-", "2">>
  /\ parseCSV(download.out.csv)[3][9] = <<"\n">>
  /\ parseCSV(download.out.csv)[3][13] = <<>>

\* C28: handleGenerate called with no uploaded source file issues no service call,
\* leaves generatedContent, isGenerating and generatingMessage as they are and sets
\* error to 'Please upload a product specification sheet.'; and
\* generateVariationsFromSpecSheet called with an empty list throws 'At least one
\* source image must be provided.' before any message or external call.
C28_NoSourceNoCall ==
  [][/\ (last'.act = "handleGenerate" /\ last'.files = <<>>)
          => /\ error' = "Please upload a product specification sheet."
             /\ UNCHANGED <<generatedContent, isGenerating, generatingMessage, trace, gen,
                            nGen, ops>>
     /\ (last'.act = "generateVariationsFromSpecSheet" /\ last'.files = <<>>)
          => /\ last'.start.threw
             /\ last'.start.err.isError
             /\ last'.start.err.message = "At least one source image must be provided."
             /\ last'.start.events = <<>>
             /\ UNCHANGED <<trace, gen, generatingMessage>>]_vars

\* C28's case: while a generation runs the user has removed the sheet from the
\* uploader, and handleGenerate was called.
C28_Witness ==
  /\ last.act = "handleGenerate"
  /\ last.files = <<>>
  /\ sourceImages = <<>>
  /\ isGenerating
  /\ gen.pc = "regenerateImageFromSource"
  /\ generatingMessage # ""
  /\ error = "Please upload a product specification sheet."
====
